---------------------------- MODULE Spec2Model ----------------------------
(***************************************************************************)
(* State-machine model of the HWB pattern scanner of backend/hwb_scanner.py *)
(* and of the price cache it reads (backend/hwb_data_manager.py), for one   *)
(* symbol.                                                                  *)
(*                                                                          *)
(* Conventions.                                                             *)
(*  - A data frame is a sequence of bar records.  All positions are the     *)
(*    0-based positions of the Python code; Bar(df, p) reads position p.    *)
(*  - Dates are calendar day numbers, day 1 being a Monday; weekday() of    *)
(*    day d is (d - 1) % 7.  Trading day t (1, 2, ...) falls on calendar    *)
(*    day CalDate(t): weekends carry no bar.                                *)
(*  - Prices are integers and every float comparison of the code is made    *)
(*    exactly, by cross-multiplication (x > r * 1.001 is 1000x > 1001r).    *)
(*  - NaN is the missing value of pandas (a NULL column of the cache).      *)
(*  - uuid4 ids are fresh integers: larger than every id of the record.     *)
(***************************************************************************)
EXTENDS Integers, Sequences, FiniteSets, TLC

(***************************************************************************)
(* Bounds of the model.                                                     *)
(***************************************************************************)
MaxBars == 6
MaxAhead == 2

(***************************************************************************)
(* Program constants (hwb_scanner.py).  INITIAL_SCAN_MIN_HISTORY_DAYS is     *)
(* read from the environment; the model runs the configuration 0, in which  *)
(* the first full scan starts at the first cached bar.                      *)
(***************************************************************************)
INITIAL_SCAN_MIN_HISTORY_DAYS == 0
FVG_MAX_SEARCH_DAYS == 20
fvg_search_days == 20
ATR_PERIOD == 14
SUMMARY_BUSINESS_DAYS == 5

NaN == -1

Max2(a, b) == IF a >= b THEN a ELSE b
Min2(a, b) == IF a <= b THEN a ELSE b
Abs(x) == IF x >= 0 THEN x ELSE -x

(***************************************************************************)
(* Calendar.                                                                *)
(***************************************************************************)
CalDate(t) == t + 2 * ((t - 1) \div 5)
Weekday(d) == (d - 1) % 7
WeekStart(d) == d - Weekday(d)

(***************************************************************************)
(* The provider's data: the bars it can return for a trading day.  Every    *)
(* bar carries the sma200/ema200 columns the cache stores with it.          *)
(*   KS  rests in the moving-average zone (a PRIMARY setup candle)          *)
(*   KG  gaps up above the zone                                             *)
(*   KV  sells off below the zone                                           *)
(*   KB  closes at a new high                                               *)
(***************************************************************************)
KS == [open |-> 100, high |-> 102, low |-> 100, close |-> 101, sma200 |-> 100, ema200 |-> 110]
KG == [open |-> 113, high |-> 115, low |-> 113, close |-> 114, sma200 |-> 100, ema200 |-> 110]
KV == [open |-> 97, high |-> 97, low |-> 96, close |-> 97, sma200 |-> 100, ema200 |-> 110]
KB == [open |-> 117, high |-> 121, low |-> 116, close |-> 120, sma200 |-> 100, ema200 |-> 110]
BarKinds == {KS, KG, KV, KB}

WUp == [close |-> 105, sma200 |-> 100]
WDown == [close |-> 95, sma200 |-> 100]
WeeklyKinds == {WUp, WDown}

MkBar(k, d) == [date |-> d, open |-> k.open, high |-> k.high, low |-> k.low, close |-> k.close, sma200 |-> k.sma200, ema200 |-> k.ema200]
MkWeekly(k, d) == [date |-> d, close |-> k.close, sma200 |-> k.sma200]

(***************************************************************************)
(* Data-frame access (pandas).                                              *)
(***************************************************************************)
Bar(df, p) == df[p + 1]
Positions(df) == 0 .. (Len(df) - 1)
\* DatetimeIndex.searchsorted(d): the position of the first bar dated >= d
SearchSorted(df, d) == Cardinality({p \in Positions(df) : Bar(df, p).date < d})
\* DatetimeIndex.get_loc(d): the position of the bar dated d, -1 for KeyError
GetLoc(df, d) == IF \E p \in Positions(df) : Bar(df, p).date = d THEN CHOOSE p \in Positions(df) : Bar(df, p).date = d ELSE -1
\* df[col].iloc[a:b].max()
MaxHigh(df, a, b) == CHOOSE h \in {Bar(df, p).high : p \in a .. (b - 1)} : \A p \in a .. (b - 1) : Bar(df, p).high <= h
\* df['low'].iloc[a:].min() and .idxmin() (the first position of the minimum)
MinLow(df, a) == CHOOSE l \in {Bar(df, p).low : p \in a .. (Len(df) - 1)} : \A p \in a .. (Len(df) - 1) : l <= Bar(df, p).low
IdxMinLow(df, a) == CHOOSE p \in a .. (Len(df) - 1) : /\ Bar(df, p).low = MinLow(df, a)
                                                       /\ \A q \in a .. (p - 1) : Bar(df, q).low > MinLow(df, a)


(***************************************************************************)
(* Rule 1: weekly trend filter (HWBAnalyzer).                               *)
(* WEEKLY_TREND_THRESHOLD is in thousandths.                                *)
(***************************************************************************)
WEEKLY_TREND_THRESHOLD == 0

\* (close - sma) / sma >= th / 1000
DeviationAtLeast(close, sma, th) == IF sma > 0 THEN (close - sma) * 1000 >= th * sma ELSE (close - sma) * 1000 <= th * sma

AllSmaNaN(wk) == \A p \in Positions(wk) : Bar(wk, p).sma200 = NaN

optimized_rule1(df_daily, df_weekly) ==
    IF Len(df_weekly) = 0 THEN FALSE
    ELSE IF AllSmaNaN(df_weekly) THEN FALSE
    ELSE LET latest_weekly == Bar(df_weekly, Len(df_weekly) - 1)
         IN IF latest_weekly.sma200 = NaN \/ latest_weekly.sma200 = 0 THEN FALSE
            ELSE DeviationAtLeast(latest_weekly.close, latest_weekly.sma200, WEEKLY_TREND_THRESHOLD)

\* df_weekly[df_weekly.index <= check_date]
WeeklyHistorical(df_weekly, check_date) == SelectSeq(df_weekly, LAMBDA w : w.date <= check_date)

check_weekly_trend_latest(df_weekly, check_date) ==
    IF Len(df_weekly) = 0 THEN FALSE
    ELSE LET df_weekly_historical == df_weekly
         IN IF Len(df_weekly_historical) = 0 THEN FALSE
            ELSE IF AllSmaNaN(df_weekly_historical) THEN FALSE
            ELSE LET latest_weekly_at_date == Bar(df_weekly_historical, Len(df_weekly_historical) - 1)
                 IN IF latest_weekly_at_date.sma200 = NaN \/ latest_weekly_at_date.sma200 = 0 THEN FALSE
                    ELSE DeviationAtLeast(latest_weekly_at_date.close, latest_weekly_at_date.sma200, WEEKLY_TREND_THRESHOLD)

check_weekly_trend_at_date(df_weekly, check_date) ==
    IF Len(df_weekly) = 0 THEN FALSE
    ELSE LET df_weekly_historical == WeeklyHistorical(df_weekly, check_date)
         IN IF Len(df_weekly_historical) = 0 THEN FALSE
            ELSE IF AllSmaNaN(df_weekly_historical) THEN FALSE
            ELSE LET latest_weekly_at_date == Bar(df_weekly_historical, Len(df_weekly_historical) - 1)
                 IN IF latest_weekly_at_date.sma200 = NaN \/ latest_weekly_at_date.sma200 = 0 THEN FALSE
                    ELSE DeviationAtLeast(latest_weekly_at_date.close, latest_weekly_at_date.sma200, WEEKLY_TREND_THRESHOLD)

\* the recorded deviation, as the fraction num/den; NaN for None
get_weekly_deviation_at_date(df_weekly, check_date) ==
    LET df_weekly_historical == WeeklyHistorical(df_weekly, check_date)
    IN IF Len(df_weekly_historical) = 0 THEN NaN
       ELSE LET latest == Bar(df_weekly_historical, Len(df_weekly_historical) - 1)
            IN IF latest.sma200 = NaN \/ latest.sma200 = 0 THEN NaN
               ELSE [num |-> latest.close - latest.sma200, den |-> latest.sma200]

(***************************************************************************)
(* Rule 2: setup detection.                                                 *)
(* atr = (high - low).rolling(14).mean(): NaN before position 13.           *)
(* Zone bounds are kept multiplied by ZoneScale = 10 * ATR_PERIOD so that   *)
(* atr * 0.5 and zone_width * 0.2 stay integers.                            *)
(***************************************************************************)
ZoneScale == 10 * ATR_PERIOD

RECURSIVE RangeSum(_, _, _)
RangeSum(df, a, b) == IF a > b THEN 0 ELSE (Bar(df, a).high - Bar(df, a).low) + RangeSum(df, a + 1, b)

\* ATR_PERIOD * atr.iloc[i], NaN while the window is not full
AtrSum(df, i) == IF i < ATR_PERIOD - 1 THEN NaN ELSE RangeSum(df, i - ATR_PERIOD + 1, i)

\* 2 * ATR_PERIOD * zone_width
ZoneWidthScaled(df, i) ==
    LET row == Bar(df, i)
        zone_width == 2 * ATR_PERIOD * Abs(row.sma200 - row.ema200)
    IN IF AtrSum(df, i) # NaN /\ AtrSum(df, i) > 0 THEN Max2(zone_width, AtrSum(df, i)) ELSE zone_width

ZoneUpperScaled(df, i) == ZoneScale * Max2(Bar(df, i).sma200, Bar(df, i).ema200) + ZoneWidthScaled(df, i)
ZoneLowerScaled(df, i) == ZoneScale * Min2(Bar(df, i).sma200, Bar(df, i).ema200) - ZoneWidthScaled(df, i)

\* zone_lower <= x <= zone_upper, x given multiplied by ZoneScale
InZone(df, i, xScaled) == ZoneLowerScaled(df, i) <= xScaled /\ xScaled <= ZoneUpperScaled(df, i)

SetupTypeAtNoCenter(df_daily, df_weekly, i) ==
    LET row == Bar(df_daily, i)
        open_in == InZone(df_daily, i, ZoneScale * row.open)
        close_in == InZone(df_daily, i, ZoneScale * row.close)
    IN IF ~check_weekly_trend_at_date(df_weekly, row.date) THEN "NONE"
       ELSE IF row.sma200 = NaN \/ row.ema200 = NaN THEN "NONE"
       ELSE IF open_in /\ close_in THEN "PRIMARY"
       ELSE IF open_in \/ close_in THEN "SECONDARY"
       ELSE "NONE"

SetupTypeAt(df_daily, df_weekly, i) ==
    LET row == Bar(df_daily, i)
        open_in == InZone(df_daily, i, ZoneScale * row.open)
        close_in == InZone(df_daily, i, ZoneScale * row.close)
        \* body_center = (open + close) / 2
        center_in == InZone(df_daily, i, (ZoneScale \div 2) * (row.open + row.close))
    IN IF ~check_weekly_trend_at_date(df_weekly, row.date) THEN "NONE"
       ELSE IF row.sma200 = NaN \/ row.ema200 = NaN THEN "NONE"
       ELSE IF open_in /\ close_in THEN "PRIMARY"
       ELSE IF (open_in \/ close_in) /\ center_in THEN "SECONDARY"
       ELSE "NONE"

RECURSIVE Rule2From(_, _, _, _)
Rule2From(df_daily, df_weekly, i, nextId) ==
    IF i >= Len(df_daily) THEN <<>>
    ELSE LET type == SetupTypeAt(df_daily, df_weekly, i)
         IN IF type = "NONE" THEN Rule2From(df_daily, df_weekly, i + 1, nextId)
            ELSE <<[id |-> nextId, date |-> Bar(df_daily, i).date, type |-> type, status |-> "active",
                    weekly_deviation |-> get_weekly_deviation_at_date(df_weekly, Bar(df_daily, i).date)]>>
                 \o Rule2From(df_daily, df_weekly, i + 1, nextId + 1)

\* scan_start_date is only read when full_scan is FALSE; nextId is the first fresh id
optimized_rule2_setups(df_daily, df_weekly, full_scan, scan_start_date, nextId) ==
    LET scan_start_index == IF full_scan THEN Max2(0, INITIAL_SCAN_MIN_HISTORY_DAYS) ELSE SearchSorted(df_daily, scan_start_date)
    IN IF scan_start_index >= Len(df_daily) THEN <<>>
       ELSE Rule2From(df_daily, df_weekly, scan_start_index, nextId)

(***************************************************************************)
(* Rule 3: fair-value-gap detection.                                        *)
(* Thresholds are in thousandths: 0.001, 0.05, 0.10.                        *)
(***************************************************************************)
FVG_MIN_GAP_PERCENTAGE == 1
PROXIMITY_PERCENTAGE == 50
FVG_ZONE_PROXIMITY == 100

\* abs(price - ma) / ma <= th / 1000, price given as a fraction pnum / pden
DeviationWithin(pnum, pden, ma, th) == Abs(pnum - pden * ma) * 1000 <= th * pden * ma

check_fvg_ma_proximity(candle_3, candle_1) ==
    IF candle_3.sma200 = NaN \/ candle_3.ema200 = NaN THEN FALSE
    ELSE \/ \E price \in {candle_3.open, candle_3.close} :
              \/ DeviationWithin(price, 1, candle_3.sma200, PROXIMITY_PERCENTAGE)
              \/ DeviationWithin(price, 1, candle_3.ema200, PROXIMITY_PERCENTAGE)
         \* fvg_center = (candle_1.high + candle_3.low) / 2
         \/ DeviationWithin(candle_1.high + candle_3.low, 2, candle_3.sma200, FVG_ZONE_PROXIMITY)
         \/ DeviationWithin(candle_1.high + candle_3.low, 2, candle_3.ema200, FVG_ZONE_PROXIMITY)

IsFvgAtAnyGap(df_daily, i) ==
    LET candle_1 == Bar(df_daily, i - 2)
        candle_3 == Bar(df_daily, i)
    IN /\ ~(candle_3.low <= candle_1.high)
       /\ check_fvg_ma_proximity(candle_3, candle_1)

\* the three tests both detectors apply to the window ending at position i
IsFvgAt(df_daily, i) ==
    LET candle_1 == Bar(df_daily, i - 2)
        candle_3 == Bar(df_daily, i)
    IN /\ ~(candle_3.low <= candle_1.high)
       /\ ~((candle_3.low - candle_1.high) * 1000 < FVG_MIN_GAP_PERCENTAGE * candle_1.high)
       /\ check_fvg_ma_proximity(candle_3, candle_1)

MkFvg(df_daily, setup, i, id) ==
    [id |-> id, setup_id |-> setup.id, formation_date |-> Bar(df_daily, i).date,
     gap_percentage |-> [num |-> Bar(df_daily, i).low - Bar(df_daily, i - 2).high, den |-> Bar(df_daily, i - 2).high],
     lower_bound |-> Bar(df_daily, i - 2).high, upper_bound |-> Bar(df_daily, i).low,
     status |-> "active", violated_date |-> NaN]

\* for i in range(start_idx, end_idx), skipping i < 2
RECURSIVE FvgScan(_, _, _, _, _)
FvgScan(df_daily, setup, i, end_idx, nextId) ==
    IF i >= end_idx \/ i >= Len(df_daily) THEN <<>>
    ELSE IF i < 2 \/ ~IsFvgAt(df_daily, i) THEN FvgScan(df_daily, setup, i + 1, end_idx, nextId)
    ELSE <<MkFvg(df_daily, setup, i, nextId)>> \o FvgScan(df_daily, setup, i + 1, end_idx, nextId + 1)

optimized_fvg_detection(df_daily, setup, nextId) ==
    LET setup_idx == GetLoc(df_daily, setup.date)
        search_end == Min2(setup_idx + fvg_search_days, Len(df_daily) - 1)
    IN IF setup_idx = -1 THEN <<>>
       ELSE FvgScan(df_daily, setup, setup_idx + 2, search_end, nextId)

detect_fvg_in_range(df_daily, setup, start_idx, end_idx, nextId) == FvgScan(df_daily, setup, start_idx, end_idx, nextId)


(***************************************************************************)
(* Rule 4: breakout detection.  BREAKOUT_THRESHOLD is in thousandths.       *)
(* A result is None (status "none"), a violation or a breakout.             *)
(***************************************************************************)
BREAKOUT_THRESHOLD == 1

NoBreakout == [status |-> "none", violated_date |-> NaN, breakout_date |-> NaN, breakout_price |-> NaN,
               resistance_price |-> NaN, breakout_percentage |-> NaN]

\* the slice [resistance_start_idx, resistance_end_idx) both detectors take the high of
ResistanceStart(setup_idx, fvg_idx) == IF fvg_idx <= setup_idx + 1 THEN Max2(0, setup_idx - 10) ELSE setup_idx + 1
ResistanceEnd(setup_idx, fvg_idx) == IF fvg_idx <= setup_idx + 1 THEN setup_idx + 1 ELSE fvg_idx

\* current['close'] > resistance_high * (1 + BREAKOUT_THRESHOLD)
ClosesAbove(current, resistance_high) == current.close * 1000 > resistance_high * (1000 + BREAKOUT_THRESHOLD)

\* low < lower_bound * 0.98
BelowViolationLevel(low, lower_bound) == low * 100 < lower_bound * 98

MkBreakout(df_daily, i, resistance_high) ==
    [status |-> "breakout", violated_date |-> NaN, breakout_date |-> Bar(df_daily, i).date,
     breakout_price |-> Bar(df_daily, i).close, resistance_price |-> resistance_high,
     \* (close / resistance_high - 1) * 100, as a fraction
     breakout_percentage |-> [num |-> (Bar(df_daily, i).close - resistance_high) * 100, den |-> resistance_high]]

\* for i in range(start_idx, end_idx): the first bar closing above the resistance
RECURSIVE BreakoutScan(_, _, _, _)
BreakoutScan(df_daily, resistance_high, i, end_idx) ==
    IF i >= end_idx THEN NoBreakout
    ELSE IF ClosesAbove(Bar(df_daily, i), resistance_high) THEN MkBreakout(df_daily, i, resistance_high)
    ELSE BreakoutScan(df_daily, resistance_high, i + 1, end_idx)

optimized_breakout_detection_all_periods(df_daily, setup, fvg) ==
    LET setup_idx == GetLoc(df_daily, setup.date)
        fvg_idx == GetLoc(df_daily, fvg.formation_date)
        resistance_start_idx == ResistanceStart(setup_idx, fvg_idx)
        resistance_end_idx == ResistanceEnd(setup_idx, fvg_idx)
        resistance_high == MaxHigh(df_daily, resistance_start_idx, resistance_end_idx)
    IN IF setup_idx = -1 \/ fvg_idx = -1 THEN NoBreakout
       ELSE IF resistance_end_idx <= resistance_start_idx THEN NoBreakout
       ELSE IF BelowViolationLevel(MinLow(df_daily, fvg_idx), fvg.lower_bound)
            THEN [NoBreakout EXCEPT !.status = "violated", !.violated_date = Bar(df_daily, IdxMinLow(df_daily, fvg_idx)).date]
       ELSE BreakoutScan(df_daily, resistance_high, fvg_idx + 1, Len(df_daily))

check_breakout_in_range(df_daily, setup, fvg, start_idx, end_idx) ==
    LET setup_idx == GetLoc(df_daily, setup.date)
        fvg_idx == GetLoc(df_daily, fvg.formation_date)
        resistance_start_idx == ResistanceStart(setup_idx, fvg_idx)
        resistance_end_idx == ResistanceEnd(setup_idx, fvg_idx)
        resistance_high == MaxHigh(df_daily, resistance_start_idx, resistance_end_idx)
    IN IF setup_idx = -1 \/ fvg_idx = -1 THEN NoBreakout
       ELSE IF resistance_end_idx <= resistance_start_idx THEN NoBreakout
       ELSE BreakoutScan(df_daily, resistance_high, start_idx, end_idx)

\* signal = {**fvg, **breakout}
MkSignal(fvg, breakout) ==
    [id |-> fvg.id, setup_id |-> fvg.setup_id, formation_date |-> fvg.formation_date,
     gap_percentage |-> fvg.gap_percentage, lower_bound |-> fvg.lower_bound, upper_bound |-> fvg.upper_bound,
     status |-> breakout.status, violated_date |-> fvg.violated_date,
     breakout_date |-> breakout.breakout_date, breakout_price |-> breakout.breakout_price,
     resistance_price |-> breakout.resistance_price, breakout_percentage |-> breakout.breakout_percentage]

(***************************************************************************)
(* Summary of one symbol (HWBScanner._create_summary_from_data).            *)
(***************************************************************************)
Symbol == "SYM"

\* the while loop: step back one calendar day at a time until `left` weekdays were passed
RECURSIVE BusinessDaysBack(_, _)
BusinessDaysBack(current_date, left) ==
    IF left = 0 THEN current_date
    ELSE BusinessDaysBack(current_date - 1, IF Weekday(current_date - 1) < 5 THEN left - 1 ELSE left)

SignalEntries(symbol, signals, today) ==
    LET five_business_days_ago == BusinessDaysBack(today, SUMMARY_BUSINESS_DAYS)
        Listed(s) == s.breakout_date = today \/ (five_business_days_ago <= s.breakout_date /\ s.breakout_date < today)
        F[k \in 0 .. Len(signals)] ==
            IF k = 0 THEN <<>>
            ELSE IF Listed(signals[k])
                 THEN Append(F[k - 1], [symbol |-> symbol,
                                        signal_type |-> IF signals[k].breakout_date = today THEN "signal_today" ELSE "signal_recent",
                                        date |-> signals[k].breakout_date])
                 ELSE F[k - 1]
    IN F[Len(signals)]

\* CandidateEntries without the test of the status
CandidateEntriesAnyStatus(symbol, fvgs, today) ==
    LET five_business_days_ago == BusinessDaysBack(today, SUMMARY_BUSINESS_DAYS)
        Listed(f) == five_business_days_ago <= f.formation_date /\ f.formation_date <= today
        F[k \in 0 .. Len(fvgs)] ==
            IF k = 0 THEN <<>>
            ELSE IF Listed(fvgs[k])
                 THEN Append(F[k - 1], [symbol |-> symbol, signal_type |-> "candidate", date |-> fvgs[k].formation_date])
                 ELSE F[k - 1]
    IN F[Len(fvgs)]

CandidateEntries(symbol, fvgs, today) ==
    LET five_business_days_ago == BusinessDaysBack(today, SUMMARY_BUSINESS_DAYS)
        Listed(f) == f.status = "active" /\ five_business_days_ago <= f.formation_date /\ f.formation_date <= today
        F[k \in 0 .. Len(fvgs)] ==
            IF k = 0 THEN <<>>
            ELSE IF Listed(fvgs[k])
                 THEN Append(F[k - 1], [symbol |-> symbol, signal_type |-> "candidate", date |-> fvgs[k].formation_date])
                 ELSE F[k - 1]
    IN F[Len(fvgs)]

create_summary_from_data(symbol, signals, fvgs, latest_market_date) ==
    SignalEntries(symbol, signals, latest_market_date) \o CandidateEntries(symbol, fvgs, latest_market_date)

create_summary_from_existing(existing_data, latest_market_date) ==
    create_summary_from_data(Symbol, existing_data.signals, existing_data.fvgs, latest_market_date)


(***************************************************************************)
(* The persisted per-symbol record (data/hwb/symbols/<symbol>.json).        *)
(* last_updated is kept as the day of the timestamp: the scanner only ever  *)
(* reads pd.to_datetime(last_updated).date().                               *)
(***************************************************************************)
NoState == [exists |-> FALSE, last_updated |-> 0, setups |-> <<>>, fvgs |-> <<>>, signals |-> <<>>]

SeqIds(items) == {items[k].id : k \in 1 .. Len(items)}
SetMax(S) == IF S = {} THEN 0 ELSE CHOOSE m \in S : \A x \in S : x <= m
\* uuid4(): an id no item of the record carries
FreshId(setups, fvgs, signals) == 1 + SetMax(SeqIds(setups) \cup SeqIds(fvgs) \cup SeqIds(signals))

(***************************************************************************)
(* HWBScanner._full_analysis                                                *)
(***************************************************************************)
\* FullFvgStep without the flag and the break that end the loop at the first breakout
FullFvgStepNoBreak(df_daily, setup, fvg, acc) ==
    LET breakout == optimized_breakout_detection_all_periods(df_daily, setup, fvg)
    IN IF breakout.status = "breakout"
       THEN [acc EXCEPT !.all_signals = Append(@, MkSignal(fvg, breakout))]
       ELSE IF breakout.status = "violated"
       THEN [acc EXCEPT !.all_fvgs = Append(@, [fvg EXCEPT !.status = "violated", !.violated_date = breakout.violated_date])]
       ELSE [acc EXCEPT !.all_fvgs = Append(@, [fvg EXCEPT !.status = "active"])]

\* FullFvgStep in which a violation also ends the setup, as a breakout does
FullFvgStepViolationConsumes(df_daily, setup, fvg, acc) ==
    LET breakout == optimized_breakout_detection_all_periods(df_daily, setup, fvg)
    IN IF breakout.status = "breakout"
       THEN [acc EXCEPT !.all_signals = Append(@, MkSignal(fvg, breakout)), !.found = TRUE]
       ELSE IF breakout.status = "violated"
       THEN [acc EXCEPT !.all_fvgs = Append(@, [fvg EXCEPT !.status = "violated", !.violated_date = breakout.violated_date]),
                        !.found = TRUE]
       ELSE [acc EXCEPT !.all_fvgs = Append(@, [fvg EXCEPT !.status = "active"])]

\* what the loop body does with the result of the breakout detection
FullFvgResult(fvg, breakout, acc) ==
    IF breakout.status = "breakout"
    THEN [acc EXCEPT !.all_signals = Append(@, MkSignal(fvg, breakout)), !.found = TRUE]
    ELSE IF breakout.status = "violated"
    THEN [acc EXCEPT !.all_fvgs = Append(@, [fvg EXCEPT !.status = "violated", !.violated_date = breakout.violated_date])]
    ELSE [acc EXCEPT !.all_fvgs = Append(@, [fvg EXCEPT !.status = "active"])]

\* the body of `for fvg in fvgs`; acc.found is signal_found_for_this_setup (the loop breaks on it)
FullFvgStep(df_daily, setup, fvg, acc) ==
    FullFvgResult(fvg, optimized_breakout_detection_all_periods(df_daily, setup, fvg), acc)

RECURSIVE FullFvgLoop(_, _, _, _, _)
FullFvgLoop(df_daily, setup, fvgs, k, acc) ==
    IF k > Len(fvgs) \/ acc.found THEN acc
    ELSE FullFvgLoop(df_daily, setup, fvgs, k + 1, FullFvgStep(df_daily, setup, fvgs[k], acc))

\* the end of the body of `for setup in setups`: r is what the fvg loop left, n the number of ids it used
FullSetupEnd(k, acc, n, r) ==
    [setups |-> [acc.setups EXCEPT ![k].status = IF r.found THEN "consumed" ELSE "active"],
     all_fvgs |-> r.all_fvgs, all_signals |-> r.all_signals, nextId |-> acc.nextId + n]

\* the fvg loop over the gaps found for the setup
FullSetupFvgs(df_daily, k, acc, fvgs) ==
    FullSetupEnd(k, acc, Len(fvgs),
                 FullFvgLoop(df_daily, acc.setups[k], fvgs, 1, [all_fvgs |-> acc.all_fvgs, all_signals |-> acc.all_signals, found |-> FALSE]))

\* the body of `for setup in setups`
FullSetupStep(df_daily, k, acc) ==
    FullSetupFvgs(df_daily, k, acc, optimized_fvg_detection(df_daily, acc.setups[k], acc.nextId))

RECURSIVE FullSetupLoop(_, _, _)
FullSetupLoop(df_daily, k, acc) ==
    IF k > Len(acc.setups) THEN acc
    ELSE FullSetupLoop(df_daily, k + 1, FullSetupStep(df_daily, k, acc))

\* the lists the setup loop starts from
FullStart(setups) == [setups |-> setups, all_fvgs |-> <<>>, all_signals |-> <<>>, nextId |-> Len(setups) + 1]

FullSaveSignalsOnly(r, latest_market_date, now) ==
    IF Len(r.setups) = 0 THEN [persist |-> FALSE, data |-> NoState, summary |-> <<>>]
    ELSE IF Len(r.all_signals) = 0
    THEN [persist |-> FALSE, data |-> NoState, summary |-> <<>>]
    ELSE [persist |-> TRUE,
          data |-> [exists |-> TRUE, last_updated |-> now, setups |-> r.setups, fvgs |-> r.all_fvgs, signals |-> r.all_signals],
          summary |-> create_summary_from_data(Symbol, r.all_signals, r.all_fvgs, latest_market_date)]

\* what follows the setup loop: nothing is saved without a setup, or without a signal or an active gap
FullSave(r, latest_market_date, now) ==
    IF Len(r.setups) = 0 THEN [persist |-> FALSE, data |-> NoState, summary |-> <<>>]
    ELSE IF Len(r.all_signals) = 0 /\ ~(\E k \in 1 .. Len(r.all_fvgs) : r.all_fvgs[k].status = "active")
    THEN [persist |-> FALSE, data |-> NoState, summary |-> <<>>]
    ELSE [persist |-> TRUE,
          data |-> [exists |-> TRUE, last_updated |-> now, setups |-> r.setups, fvgs |-> r.all_fvgs, signals |-> r.all_signals],
          summary |-> create_summary_from_data(Symbol, r.all_signals, r.all_fvgs, latest_market_date)]

\* [persist, data, summary]: whether a record was saved, the record, the returned summary
full_analysis(df_daily, df_weekly, latest_market_date, now) ==
    FullSave(FullSetupLoop(df_daily, 1, FullStart(optimized_rule2_setups(df_daily, df_weekly, TRUE, 0, 1))), latest_market_date, now)

(***************************************************************************)
(* HWBScanner._differential_analysis                                        *)
(***************************************************************************)
DiffGapStepFromSetup(df_daily, existing, setup, last_analyzed_date, acc) ==
    LET setup_idx == GetLoc(df_daily, setup.date)
        search_start == setup_idx + 2
        search_end == Min2(setup_idx + FVG_MAX_SEARCH_DAYS, Len(df_daily) - 1)
        new_fvgs == detect_fvg_in_range(df_daily, setup, search_start, search_end, FreshId(existing.setups, acc.fvgs, existing.signals))
    IN IF search_start >= search_end THEN acc
       ELSE IF Len(new_fvgs) = 0 THEN acc
       ELSE [fvgs |-> acc.fvgs \o new_fvgs, new_fvgs_found |-> acc.new_fvgs_found \o new_fvgs, updated |-> TRUE]

\* the body of `for setup in active_setups`; acc = [fvgs, new_fvgs_found, updated]
DiffGapStep(df_daily, existing, setup, last_analyzed_date, acc) ==
    LET setup_idx == GetLoc(df_daily, setup.date)
        setup_fvg_dates == {acc.fvgs[k].formation_date : k \in {j \in 1 .. Len(acc.fvgs) : acc.fvgs[j].setup_id = setup.id}}
        last_fvg_date == SetMax(setup_fvg_dates)
        new_data_start == SearchSorted(df_daily, last_analyzed_date + 1)
        search_start == Max2(IF setup_fvg_dates # {} THEN SearchSorted(df_daily, last_fvg_date + 1) ELSE setup_idx + 2, new_data_start)
        search_end == Min2(setup_idx + FVG_MAX_SEARCH_DAYS, Len(df_daily) - 1)
        new_fvgs == detect_fvg_in_range(df_daily, setup, search_start, search_end, FreshId(existing.setups, acc.fvgs, existing.signals))
    IN IF search_start >= search_end THEN acc
       ELSE IF Len(new_fvgs) = 0 THEN acc
       ELSE [fvgs |-> acc.fvgs \o new_fvgs, new_fvgs_found |-> acc.new_fvgs_found \o new_fvgs, updated |-> TRUE]

RECURSIVE DiffGapLoop(_, _, _, _, _)
DiffGapLoop(df_daily, existing, last_analyzed_date, k, acc) ==
    IF k > Len(existing.setups) THEN acc
    ELSE IF existing.setups[k].status # "active" THEN DiffGapLoop(df_daily, existing, last_analyzed_date, k + 1, acc)
    ELSE DiffGapLoop(df_daily, existing, last_analyzed_date, k + 1, DiffGapStep(df_daily, existing, existing.setups[k], last_analyzed_date, acc))

\* the position in `items` of the dict with this id (the loops hold references)
PosOfId(items, id) == CHOOSE k \in 1 .. Len(items) : items[k].id = id

\* DiffBreakoutStep that forgets to consume the setup of the breakout
DiffBreakoutStepKeepsSetup(df_daily, fvg_id, last_analyzed_date, acc) ==
    LET fvg == acc.fvgs[PosOfId(acc.fvgs, fvg_id)]
        has_setup == \E k \in 1 .. Len(acc.setups) : acc.setups[k].id = fvg.setup_id
        sk == CHOOSE k \in 1 .. Len(acc.setups) : acc.setups[k].id = fvg.setup_id /\ \A j \in 1 .. (k - 1) : acc.setups[j].id # fvg.setup_id
        setup == acc.setups[sk]
        fvg_idx == GetLoc(df_daily, fvg.formation_date)
        new_data_start == SearchSorted(df_daily, last_analyzed_date + 1)
        check_start == Max2(fvg_idx + 1, new_data_start)
        breakout == check_breakout_in_range(df_daily, setup, fvg, check_start, Len(df_daily))
    IN IF ~has_setup THEN acc
       ELSE IF setup.status = "consumed" THEN acc
       ELSE IF check_start >= Len(df_daily) THEN acc
       ELSE IF breakout.status = "breakout"
       THEN [setups |-> acc.setups,
             fvgs |-> [k \in 1 .. Len(acc.fvgs) |-> IF acc.fvgs[k].setup_id = setup.id THEN [acc.fvgs[k] EXCEPT !.status = "consumed"] ELSE acc.fvgs[k]],
             signals |-> Append(acc.signals, MkSignal(fvg, breakout)),
             updated |-> TRUE, brk |-> TRUE]
       ELSE IF breakout.status = "violated"
       THEN [acc EXCEPT !.fvgs[PosOfId(acc.fvgs, fvg_id)] = [fvg EXCEPT !.status = "violated", !.violated_date = breakout.violated_date],
                        !.updated = TRUE]
       ELSE acc

\* DiffBreakoutStep that stores the new signal in place of the list
DiffBreakoutStepReplacesSignals(df_daily, fvg_id, last_analyzed_date, acc) ==
    LET fvg == acc.fvgs[PosOfId(acc.fvgs, fvg_id)]
        has_setup == \E k \in 1 .. Len(acc.setups) : acc.setups[k].id = fvg.setup_id
        sk == CHOOSE k \in 1 .. Len(acc.setups) : acc.setups[k].id = fvg.setup_id /\ \A j \in 1 .. (k - 1) : acc.setups[j].id # fvg.setup_id
        setup == acc.setups[sk]
        fvg_idx == GetLoc(df_daily, fvg.formation_date)
        new_data_start == SearchSorted(df_daily, last_analyzed_date + 1)
        check_start == Max2(fvg_idx + 1, new_data_start)
        breakout == check_breakout_in_range(df_daily, setup, fvg, check_start, Len(df_daily))
    IN IF ~has_setup THEN acc
       ELSE IF setup.status = "consumed" THEN acc
       ELSE IF check_start >= Len(df_daily) THEN acc
       ELSE IF breakout.status = "breakout"
       THEN [setups |-> [acc.setups EXCEPT ![sk].status = "consumed"],
             fvgs |-> [k \in 1 .. Len(acc.fvgs) |-> IF acc.fvgs[k].setup_id = setup.id THEN [acc.fvgs[k] EXCEPT !.status = "consumed"] ELSE acc.fvgs[k]],
             signals |-> <<MkSignal(fvg, breakout)>>,
             updated |-> TRUE, brk |-> TRUE]
       ELSE IF breakout.status = "violated"
       THEN [acc EXCEPT !.fvgs[PosOfId(acc.fvgs, fvg_id)] = [fvg EXCEPT !.status = "violated", !.violated_date = breakout.violated_date],
                        !.updated = TRUE]
       ELSE acc

\* the body of `for fvg in all_active_fvgs`; acc = [setups, fvgs, signals, updated, brk]
DiffBreakoutStep(df_daily, fvg_id, last_analyzed_date, acc) ==
    LET fvg == acc.fvgs[PosOfId(acc.fvgs, fvg_id)]
        has_setup == \E k \in 1 .. Len(acc.setups) : acc.setups[k].id = fvg.setup_id
        sk == CHOOSE k \in 1 .. Len(acc.setups) : acc.setups[k].id = fvg.setup_id /\ \A j \in 1 .. (k - 1) : acc.setups[j].id # fvg.setup_id
        setup == acc.setups[sk]
        fvg_idx == GetLoc(df_daily, fvg.formation_date)
        new_data_start == SearchSorted(df_daily, last_analyzed_date + 1)
        check_start == Max2(fvg_idx + 1, new_data_start)
        breakout == check_breakout_in_range(df_daily, setup, fvg, check_start, Len(df_daily))
    IN IF ~has_setup THEN acc
       ELSE IF setup.status = "consumed" THEN acc
       ELSE IF check_start >= Len(df_daily) THEN acc
       ELSE IF breakout.status = "breakout"
       THEN [setups |-> [acc.setups EXCEPT ![sk].status = "consumed"],
             fvgs |-> [k \in 1 .. Len(acc.fvgs) |-> IF acc.fvgs[k].setup_id = setup.id THEN [acc.fvgs[k] EXCEPT !.status = "consumed"] ELSE acc.fvgs[k]],
             signals |-> Append(acc.signals, MkSignal(fvg, breakout)),
             updated |-> TRUE, brk |-> TRUE]
       ELSE IF breakout.status = "violated"
       THEN [acc EXCEPT !.fvgs[PosOfId(acc.fvgs, fvg_id)] = [fvg EXCEPT !.status = "violated", !.violated_date = breakout.violated_date],
                        !.updated = TRUE]
       ELSE acc

RECURSIVE DiffBreakoutLoop(_, _, _, _, _)
DiffBreakoutLoop(df_daily, all_active_fvgs, last_analyzed_date, k, acc) ==
    IF k > Len(all_active_fvgs) \/ acc.brk THEN acc
    ELSE DiffBreakoutLoop(df_daily, all_active_fvgs, last_analyzed_date, k + 1,
                          DiffBreakoutStep(df_daily, all_active_fvgs[k].id, last_analyzed_date, acc))

DiffNewSetupsAlways(df_daily, df_weekly, existing, last_analyzed_date, acc) ==
    LET new_setups == optimized_rule2_setups(df_daily, df_weekly, FALSE, last_analyzed_date + 1, FreshId(acc.setups, acc.fvgs, acc.signals))
    IN IF Len(new_setups) > 0
       THEN [acc EXCEPT !.setups = @ \o new_setups, !.updated = TRUE]
       ELSE acc

\* the new-setup search that ends the run; acc as left by the breakout loop
DiffNewSetups(df_daily, df_weekly, existing, last_analyzed_date, acc) ==
    LET no_active_setups == ~(\E k \in 1 .. Len(existing.setups) : existing.setups[k].status = "active")
        all_consumed == \A k \in 1 .. Len(acc.setups) : acc.setups[k].status = "consumed"
        new_setups == optimized_rule2_setups(df_daily, df_weekly, FALSE, last_analyzed_date + 1, FreshId(acc.setups, acc.fvgs, acc.signals))
    IN IF (no_active_setups \/ all_consumed) /\ Len(new_setups) > 0
       THEN [acc EXCEPT !.setups = @ \o new_setups, !.updated = TRUE]
       ELSE acc

\* a get_loc of the run that raises KeyError (the run is abandoned by the caller's except)
DiffRaises(df_daily, existing) ==
    \/ \E k \in 1 .. Len(existing.setups) : existing.setups[k].status = "active" /\ GetLoc(df_daily, existing.setups[k].date) = -1
    \/ \E k \in 1 .. Len(existing.fvgs) : existing.fvgs[k].status = "active" /\ GetLoc(df_daily, existing.fvgs[k].formation_date) = -1

\* the gap search over the active setups
DiffGaps(df_daily, existing_data) ==
    DiffGapLoop(df_daily, existing_data, existing_data.last_updated, 1,
                [fvgs |-> existing_data.fvgs, new_fvgs_found |-> <<>>, updated |-> FALSE])

\* the breakout loop over all_active_fvgs = active_fvgs + new_fvgs_found; g is what the gap search left
DiffBreakouts(df_daily, existing_data, g) ==
    DiffBreakoutLoop(df_daily, SelectSeq(existing_data.fvgs, LAMBDA f : f.status = "active") \o g.new_fvgs_found,
                     existing_data.last_updated, 1,
                     [setups |-> existing_data.setups, fvgs |-> g.fvgs, signals |-> existing_data.signals,
                      updated |-> g.updated, brk |-> FALSE])

\* existing_data as the run leaves it in memory: last_updated is set only `if updated`
DiffInMemory(n, existing_data, now) ==
    [exists |-> TRUE, last_updated |-> IF n.updated THEN now ELSE existing_data.last_updated,
     setups |-> n.setups, fvgs |-> n.fvgs, signals |-> n.signals]

DiffSaveAlways(updated, in_memory, latest_market_date) ==
    [persist |-> TRUE, data |-> [in_memory EXCEPT !.last_updated = latest_market_date],
     summary |-> create_summary_from_existing(in_memory, latest_market_date), path |-> "diff"]

\* the save `if updated` and the returned summary
DiffSave(updated, in_memory, latest_market_date) ==
    [persist |-> updated, data |-> in_memory, summary |-> create_summary_from_existing(in_memory, latest_market_date), path |-> "diff"]

\* the run from the gap search to the save; n is the record after the new-setup search
DiffEnd(n, existing_data, latest_market_date, now) == DiffSave(n.updated, DiffInMemory(n, existing_data, now), latest_market_date)

\* [persist, data, summary, path]
differential_analysis(df_daily, df_weekly, existing_data, latest_market_date, now) ==
    IF latest_market_date <= existing_data.last_updated
    THEN [persist |-> FALSE, data |-> existing_data, summary |-> create_summary_from_existing(existing_data, latest_market_date), path |-> "noop"]
    ELSE IF DiffRaises(df_daily, existing_data)
    THEN [persist |-> FALSE, data |-> existing_data, summary |-> <<>>, path |-> "error"]
    ELSE DiffEnd(DiffNewSetups(df_daily, df_weekly, existing_data, existing_data.last_updated,
                               DiffBreakouts(df_daily, existing_data, DiffGaps(df_daily, existing_data))),
                 existing_data, latest_market_date, now)

(***************************************************************************)
(* HWBScanner._analyze_and_save_symbol, after the cache returned the frames *)
(***************************************************************************)
\* the first run of a symbol: f is what _full_analysis saved and returned
FullRun(f, existing_data) ==
    [persist |-> f.persist, data |-> IF f.persist THEN f.data ELSE existing_data, summary |-> f.summary, path |-> "full"]

\* analyze that never looks for an existing record (every run a first run)
analyzeAlwaysFull(df_daily, df_weekly, existing_data, now) ==
    IF Len(df_daily) = 0 \/ Len(df_weekly) = 0
    THEN [persist |-> FALSE, data |-> existing_data, summary |-> <<>>, path |-> "skip"]
    ELSE IF ~optimized_rule1(df_daily, df_weekly)
    THEN [persist |-> FALSE, data |-> existing_data, summary |-> <<>>, path |-> "skip"]
    ELSE FullRun(full_analysis(df_daily, df_weekly, Bar(df_daily, Len(df_daily) - 1).date, now), existing_data)

analyze(df_daily, df_weekly, existing_data, now) ==
    IF Len(df_daily) = 0 \/ Len(df_weekly) = 0
    THEN [persist |-> FALSE, data |-> existing_data, summary |-> <<>>, path |-> "skip"]
    ELSE IF ~optimized_rule1(df_daily, df_weekly)
    THEN [persist |-> FALSE, data |-> existing_data, summary |-> <<>>, path |-> "skip"]
    ELSE IF existing_data.exists
    THEN differential_analysis(df_daily, df_weekly, existing_data, Bar(df_daily, Len(df_daily) - 1).date, now)
    ELSE FullRun(full_analysis(df_daily, df_weekly, Bar(df_daily, Len(df_daily) - 1).date, now), existing_data)


(***************************************************************************)
(* The state machine: one symbol, its cached frames, its persisted record.  *)
(*   bars, weekly  the cached daily and weekly frames                       *)
(*   clock         the current trading day (datetime.now() falls on         *)
(*                 CalDate(clock))                                          *)
(*   state         the persisted record                                     *)
(*   summary       what the last run returned for the symbol                *)
(*   before, lastPath, fetched                                              *)
(*                 history of the last run: the record it found, the path   *)
(*                 it took, the number of daily bars its sync added         *)
(***************************************************************************)
VARIABLES bars, weekly, clock, state, summary, before, lastPath, fetched

vars == <<bars, weekly, clock, state, summary, before, lastPath, fetched>>

\* history of the last run: whether its provider fetch failed
VARIABLE fetch_failed

(***************************************************************************)
(* The price store and the threads that synchronise it                      *)
(* (HWBDataManager.get_stock_data_with_cache).                              *)
(*   today          the day datetime.now().date() falls on                  *)
(*   instOf         the HWBDataManager instance each thread calls           *)
(*   db_lock        self.db_lock of every instance: its holder, 0 if free   *)
(*   daily_prices, weekly_prices, data_metadata                             *)
(*                  the committed rows of the three tables, by symbol; a    *)
(*                  row set is the set of its dates                         *)
(*   writer         the thread whose connection holds SQLite's write lock   *)
(*                  (an open write transaction), 0 if none                  *)
(*   th             the locals of each thread's call, with the history      *)
(*                  fields fetches (calls of _fetch_from_yfinance), pre     *)
(*                  (the rows when _save_to_db began), write_failed and     *)
(*                  loaded_torn (Step 4 loaded rows that were torn)         *)
(*   torn           history: by symbol, whether the last commit of a sync   *)
(*                  left rows other than the full frames of that sync       *)
(***************************************************************************)
VARIABLES today, instOf, db_lock, daily_prices, weekly_prices, data_metadata, writer, th, torn

cacheVars == <<today, instOf, db_lock, daily_prices, weekly_prices, data_metadata, writer, th, torn>>

\* bounds of the store model: threads, instances, the days the clock runs over
NumThreads == 2
FirstDay == 7
MaxToday == 8

Threads == 1 .. NumThreads
Instances == Threads
Symbols == {"A"}

\* 365 * lookback_years, in days of the model
LOOKBACK_DAYS == 1

\* _get_metadata returning None; a NULL date column is 0
NoMetadata == [exists |-> FALSE, first_date |-> 0, last_date |-> 0, daily_count |-> 0, weekly_count |-> 0]

\* the rows of one symbol in the two price tables
Rows(s) == [daily |-> daily_prices[s], weekly |-> weekly_prices[s]]
NoRows == [daily |-> {}, weekly |-> {}]

\* a thread outside get_stock_data_with_cache
IdleThread ==
    [pc |-> "idle", symbol |-> "-", metadata |-> NoMetadata, today |-> 0, needs_update |-> FALSE, start_date |-> 0,
     fetches |-> 0, df_new_daily |-> {}, df_new_weekly |-> {}, df_full_daily |-> {}, df_full_weekly |-> {},
     pre |-> NoRows, write_failed |-> FALSE, final_df_daily |-> {}, final_df_weekly |-> {}, loaded_torn |-> FALSE, result |-> "-"]

(***************************************************************************)
(* One run of HWBScanner.scan_all_symbols.                                  *)
(*   symbols          the universe, list(get_russell3000_symbols())         *)
(*   i                the loop variable of `for i in range(0, total, ...)`  *)
(*   phase            "loop" at the head of the for loop, "batch" inside    *)
(*                    the executor's with block, "done" after the save      *)
(*   task             by symbol: "none", "queued" (submitted), "running",   *)
(*                    "returned" (future done), "collected" (yielded by     *)
(*                    as_completed)                                         *)
(*   ret              by symbol: how its task ended and what it returned    *)
(*   all_results, processed_count                                           *)
(*   daily_summary    the summary saved by save_daily_summary               *)
(*   batches          history: the batches submitted so far                 *)
(***************************************************************************)
VARIABLES symbols, i, phase, task, ret, all_results, processed_count, daily_summary, batches

runVars == <<symbols, i, phase, task, ret, all_results, processed_count, daily_summary, batches>>

\* bound of the run model: the largest universe
MaxSymbols == 5

\* BATCH_SIZE and MAX_WORKERS of the environment, scaled
BATCH_SIZE == 3
MAX_WORKERS == 2

Universe == 1 .. MaxSymbols
NoReturn == [kind |-> "-", result |-> <<>>]
NoSummary == [saved |-> FALSE, total_scanned |-> 0, signals_today |-> <<>>, signals_recent |-> <<>>, candidates |-> <<>>]

(***************************************************************************)
(* A detector of HWBAnalyzer applied on its own to the frames bars, weekly. *)
(*   called     the function applied and its arguments                      *)
(*   returned   what it returned                                            *)
(***************************************************************************)
VARIABLES called, returned

ruleVars == <<called, returned>>

NoCall == [fn |-> "-", args |-> <<>>]

\* no detector was applied
RulesIdle ==
    /\ called = NoCall
    /\ returned = <<>>

\* no run under way
RunIdle ==
    /\ symbols = <<>>
    /\ i = 0
    /\ phase = "idle"
    /\ task = [s \in Universe |-> "none"]
    /\ ret = [s \in Universe |-> NoReturn]
    /\ all_results = <<>>
    /\ processed_count = 0
    /\ daily_summary = NoSummary
    /\ batches = <<>>

\* the store after _init_database, before any call
CacheIdle ==
    /\ today = FirstDay
    /\ instOf = [t \in Threads |-> 1]
    /\ db_lock = [inst \in Instances |-> 0]
    /\ daily_prices = [s \in Symbols |-> {}]
    /\ weekly_prices = [s \in Symbols |-> {}]
    /\ data_metadata = [s \in Symbols |-> NoMetadata]
    /\ writer = 0
    /\ th = [t \in Threads |-> IdleThread]
    /\ torn = [s \in Symbols |-> FALSE]

\* the cache is empty and no record exists; the symbol is first scanned on some
\* trading day, the provider holding its history from trading day 1 on
Init ==
    /\ bars = <<>>
    /\ weekly = <<>>
    /\ clock \in 1 .. (MaxBars + 1)
    /\ state = NoState
    /\ summary = <<>>
    /\ before = NoState
    /\ lastPath = "init"
    /\ fetched = 0
    /\ fetch_failed = FALSE
    /\ CacheIdle
    /\ RunIdle
    /\ RulesIdle

\* a day passes; once filled, the cache lags the clock by at most MaxAhead trading days
Tick ==
    /\ Len(bars) > 0
    /\ clock - Len(bars) < MaxAhead
    /\ clock < MaxBars + 1
    /\ clock' = clock + 1
    /\ UNCHANGED <<bars, weekly, state, summary, before, lastPath, fetched>>
    /\ UNCHANGED <<fetch_failed, cacheVars, runVars, ruleVars>>

\* the trading days first..last that open a week
Mondays(first, last) == {t \in first .. last : Weekday(CalDate(t)) = 0}

\* HWBDataManager.get_stock_data_with_cache: the provider returns the bars of the
\* trading days after the cached last_date, up to day `upto`; they are appended
SyncedDaily(upto, kinds) == bars \o [k \in 1 .. (upto - Len(bars)) |-> MkBar(kinds[k], CalDate(Len(bars) + k))]

RECURSIVE WeeklyRows(_, _, _)
WeeklyRows(t, upto, wkinds) ==
    IF t > upto THEN <<>>
    ELSE IF Weekday(CalDate(t)) = 0 THEN <<MkWeekly(wkinds[t], CalDate(t))>> \o WeeklyRows(t + 1, upto, wkinds)
    ELSE WeeklyRows(t + 1, upto, wkinds)

SyncedWeekly(upto, wkinds) == weekly \o WeeklyRows(Len(bars) + 1, upto, wkinds)

\* HWBScanner._analyze_and_save_symbol: sync the cache, then analyse
Scan ==
    \E upto \in {Len(bars), clock - 1, clock} :
        /\ upto >= Len(bars)
        /\ upto <= MaxBars
        /\ \E kinds \in [1 .. (upto - Len(bars)) -> BarKinds], wkinds \in [Mondays(Len(bars) + 1, upto) -> WeeklyKinds] :
              \E r \in {analyze(SyncedDaily(upto, kinds), SyncedWeekly(upto, wkinds), state, CalDate(clock))} :
                 /\ bars' = SyncedDaily(upto, kinds)
                 /\ weekly' = SyncedWeekly(upto, wkinds)
                 /\ state' = IF r.persist THEN r.data ELSE state
                 /\ summary' = r.summary
                 /\ before' = state
                 /\ lastPath' = r.path
                 /\ fetched' = upto - Len(bars)
                 /\ UNCHANGED clock
                 /\ fetch_failed' = FALSE
                 /\ UNCHANGED <<cacheVars, runVars, ruleVars>>

Next == Tick \/ Scan

Spec == Init /\ [][Next]_vars

\* HWBScanner._analyze_and_save_symbol when _fetch_from_yfinance returns (None, None):
\* Step 3 is skipped, Step 4 loads the cached frames, and the analysis runs on them
\* (get_stock_data_with_cache returns None only if no daily row is cached)
ScanFetchFails ==
    /\ IF Len(bars) = 0 THEN TRUE ELSE Bar(bars, Len(bars) - 1).date < CalDate(clock)
    /\ \E r \in {analyze(bars, weekly, state, CalDate(clock))} :
          /\ state' = IF r.persist THEN r.data ELSE state
          /\ summary' = r.summary
          /\ before' = state
          /\ lastPath' = r.path
    /\ fetched' = 0
    /\ fetch_failed' = TRUE
    /\ UNCHANGED <<bars, weekly, clock>>
    /\ UNCHANGED <<cacheVars, runVars, ruleVars>>

FetchNext == Tick \/ Scan \/ ScanFetchFails

FetchSpec == Init /\ [][FetchNext]_<<vars, fetch_failed>>


(***************************************************************************)
(* Properties.                                                              *)
(***************************************************************************)
LastDate == IF Len(bars) = 0 THEN 0 ELSE Bar(bars, Len(bars) - 1).date
SignalsOf(st, setup_id) == {j \in 1 .. Len(st.signals) : st.signals[j].setup_id = setup_id}
GapsOf(st, setup_id) == {k \in 1 .. Len(st.fvgs) : st.fvgs[k].setup_id = setup_id}
IsPrefix(s, t) == Len(s) <= Len(t) /\ \A k \in 1 .. Len(s) : t[k] = s[k]

\* C1: after any sequence of runs (a full scan, then incremental re-scans), every
\* Setup of the persisted record has at most one Signal carrying its id.
AtMostOneSignalPerSetup ==
    \A k \in 1 .. Len(state.setups) : Cardinality(SignalsOf(state, state.setups[k].id)) <= 1

\* an incremental re-scan has just added a Signal to a record that already held one
WitnessSignalPerSetup ==
    /\ lastPath = "diff"
    /\ Len(before.signals) >= 1
    /\ Len(state.signals) > Len(before.signals)
    /\ \E k \in 1 .. Len(state.setups) : Cardinality(SignalsOf(state, state.setups[k].id)) = 1

\* C2 (as claimed): if a Signal exists for a Setup, the Setup is consumed and every
\* GapZone owned by the Setup is consumed.
SignalConsumesAllGaps ==
    \A j \in 1 .. Len(state.signals) :
        /\ \A k \in 1 .. Len(state.setups) : state.setups[k].id = state.signals[j].setup_id => state.setups[k].status = "consumed"
        /\ \A k \in GapsOf(state, state.signals[j].setup_id) : state.fvgs[k].status = "consumed"

\* C2 (amended): if a Signal exists for a Setup, the Setup is consumed and no
\* GapZone owned by the Setup is still active (each is consumed or violated).
SignalLeavesNoActiveGap ==
    \A j \in 1 .. Len(state.signals) :
        /\ \A k \in 1 .. Len(state.setups) : state.setups[k].id = state.signals[j].setup_id => state.setups[k].status = "consumed"
        /\ \A k \in GapsOf(state, state.signals[j].setup_id) : state.fvgs[k].status \in {"consumed", "violated"}

\* an incremental re-scan has emitted a Signal for a Setup that owns two or more GapZones
WitnessSignalConsumes ==
    /\ lastPath = "diff"
    /\ \E j \in 1 .. Len(state.signals) :
          /\ j > Len(before.signals)
          /\ Cardinality(GapsOf(state, state.signals[j].setup_id)) >= 2
          /\ \E k \in 1 .. Len(state.setups) : state.setups[k].id = state.signals[j].setup_id /\ state.setups[k].status = "consumed"


SetupOf(st, setup_id) == st.setups[CHOOSE k \in 1 .. Len(st.setups) : st.setups[k].id = setup_id]

\* the bars that breach the gap's lower bound, and the bars that meet the breakout condition
ViolationBars(df, g) == {p \in GetLoc(df, g.formation_date) .. (Len(df) - 1) : BelowViolationLevel(Bar(df, p).low, g.lower_bound)}
BreakoutBars(df, st, g) ==
    LET setup_idx == GetLoc(df, SetupOf(st, g.setup_id).date)
        fvg_idx == GetLoc(df, g.formation_date)
        resistance_high == MaxHigh(df, ResistanceStart(setup_idx, fvg_idx), ResistanceEnd(setup_idx, fvg_idx))
    IN {p \in (fvg_idx + 1) .. (Len(df) - 1) : ClosesAbove(Bar(df, p), resistance_high)}
\* some bar breaches the lower bound before every bar that meets the breakout condition
ViolatedFirst(df, st, g) == \E v \in ViolationBars(df, g) : \A b \in BreakoutBars(df, st, g) : v < b

\* C3: violation precedence.  A GapZone whose lower bound (x 0.98) is breached
\* before any bar meets the breakout condition is never consumed, and is violated
\* once a full scan or an incremental re-scan has processed the bars.
ViolationPrecedence ==
    \A k \in 1 .. Len(state.fvgs) :
        ViolatedFirst(bars, state, state.fvgs[k]) =>
            /\ state.fvgs[k].status # "consumed"
            /\ lastPath \in {"full", "diff"} => state.fvgs[k].status = "violated"

\* the record up to the renaming of ids: a Setup is named by its date, a GapZone by
\* its Setup's date and its formation date
CanonSetups(st) == {[date |-> st.setups[k].date, type |-> st.setups[k].type, status |-> st.setups[k].status] : k \in 1 .. Len(st.setups)}
CanonGaps(st) ==
    {[setup |-> SetupOf(st, st.fvgs[k].setup_id).date, formation_date |-> st.fvgs[k].formation_date,
      lower_bound |-> st.fvgs[k].lower_bound, upper_bound |-> st.fvgs[k].upper_bound, status |-> st.fvgs[k].status] : k \in 1 .. Len(st.fvgs)}
CanonSignals(st) ==
    {[setup |-> SetupOf(st, st.signals[j].setup_id).date, formation_date |-> st.signals[j].formation_date,
      breakout_date |-> st.signals[j].breakout_date] : j \in 1 .. Len(st.signals)}
SeqToSet(q) == {q[k] : k \in 1 .. Len(q)}

\* what one full scan run directly on the cached frames produces
FullScanOfCache == full_analysis(bars, weekly, LastDate, CalDate(clock))

\* C4: equivalence of incremental and full scan.  After an incremental re-scan the
\* record holds the same Setups, GapZones and Signals (ids renamed), and the run
\* returns the same categorized summary, as one full scan of the same frames.
IncrementalEqualsFull ==
    (lastPath = "diff" /\ FullScanOfCache.persist) =>
        /\ CanonSetups(state) = CanonSetups(FullScanOfCache.data)
        /\ CanonGaps(state) = CanonGaps(FullScanOfCache.data)
        /\ CanonSignals(state) = CanonSignals(FullScanOfCache.data)
        /\ SeqToSet(summary) = SeqToSet(FullScanOfCache.summary)

\* C5: idempotence.  A run that finds no new bar in the cache since the previous
\* run leaves the persisted record as it was and returns the same summary entries.
Idempotence ==
    [][(lastPath # "init" /\ bars' = bars) => (state' = state /\ summary' = summary)]_vars

\* a second run on the same bars took the no-op path and returned entries, the day after the first
WitnessIdempotence ==
    /\ lastPath = "noop"
    /\ fetched = 0
    /\ state.exists
    /\ state.last_updated < CalDate(clock)
    /\ Len(summary) >= 1

\* C6: after every incremental re-scan that found bars newer than the watermark,
\* the persisted watermark equals the date of the latest daily bar of the cache.
WatermarkAdvances == lastPath = "diff" => state.last_updated = LastDate

\* C7: the persisted watermark is never later than the latest daily bar the run
\* examined, so every bar cached afterwards is newer than the watermark.
WatermarkNotAhead == state.exists => state.last_updated <= LastDate

\* C8: signals are permanent.  Every run keeps each persisted Signal, unchanged and
\* in place; signals are only appended.
SignalsPermanent == [][state.exists => (state'.exists /\ IsPrefix(state.signals, state'.signals))]_vars

\* an incremental re-scan changed a record that held a Signal, and appended a Signal
WitnessSignalsPermanent ==
    /\ lastPath = "diff"
    /\ Len(before.signals) >= 1
    /\ state # before
    /\ Len(state.signals) = Len(before.signals) + 1
    /\ IsPrefix(before.signals, state.signals)

\* C9: status transitions are monotone.  A consumed Setup stays consumed; a GapZone
\* that is consumed or violated never changes status again.
StatusMonotone ==
    [][/\ \A k \in 1 .. Len(state.setups) : state.setups[k].status = "consumed" =>
              \E j \in 1 .. Len(state'.setups) : state'.setups[j].id = state.setups[k].id /\ state'.setups[j].status = "consumed"
       /\ \A k \in 1 .. Len(state.fvgs) : state.fvgs[k].status \in {"consumed", "violated"} =>
              \E j \in 1 .. Len(state'.fvgs) : state'.fvgs[j].id = state.fvgs[k].id /\ state'.fvgs[j].status = state.fvgs[k].status]_vars

\* C10: a violation changes only its GapZone.  A Setup is consumed only by a
\* Signal of its own, a GapZone is consumed only by a Signal of its Setup and is
\* violated only by a breach of its own lower bound.
ViolationChangesOnlyItsGap ==
    /\ \A k \in 1 .. Len(state.setups) : state.setups[k].status = "consumed" => SignalsOf(state, state.setups[k].id) # {}
    /\ \A k \in 1 .. Len(state.fvgs) :
          /\ state.fvgs[k].status = "consumed" => SignalsOf(state, state.fvgs[k].setup_id) # {}
          /\ state.fvgs[k].status = "violated" => ViolationBars(bars, state.fvgs[k]) # {}

\* a Setup with a violated GapZone is active and owns another GapZone that is still active
WitnessViolationFrame ==
    \E k \in 1 .. Len(state.fvgs) :
        /\ state.fvgs[k].status = "violated"
        /\ SetupOf(state, state.fvgs[k].setup_id).status = "active"
        /\ \E j \in GapsOf(state, state.fvgs[k].setup_id) : state.fvgs[j].status = "active"


\* C16: a run whose provider fetch failed performs no analysis of the symbol, returns no
\* entry for it and leaves its record and its cached bars, with or without cached bars
FetchFailureSkipsSymbol == fetch_failed => (lastPath = "skip" /\ summary = <<>> /\ state = before /\ fetched = 0)

(***************************************************************************)
(* HWBDataManager.get_stock_data_with_cache, step by step.  A thread is at  *)
(*   idle        outside the call                                           *)
(*   step1       inside the lock of Step 1 (metadata read, decision)        *)
(*   fetch       in _fetch_from_yfinance (Step 2)                           *)
(*   step3_wait  before the lock of Step 3                                  *)
(*   step3       inside it: old rows loaded, full frames computed           *)
(*   deleted     in _save_to_db after BEGIN and the two DELETEs             *)
(*   daily_in    after the to_sql of the daily rows                         *)
(*   weekly_in   after the to_sql of the weekly rows                        *)
(*   saved       after conn.commit(), before _update_metadata               *)
(*   step4_wait  before the lock of Step 4                                  *)
(*   step4       inside it: final rows loaded                               *)
(*   done        at the return                                              *)
(* A local is kept while the code can still read it and dropped after.      *)
(* Each connection sees the committed rows and its own open transaction.    *)
(* DataFrame.to_sql on a sqlite3 connection runs its INSERTs and then calls *)
(* commit() on that connection (rollback() if the INSERTs raise), so the    *)
(* transaction opened by BEGIN ends at the first to_sql.                    *)
(***************************************************************************)
SetMin(S) == CHOOSE x \in S : \A y \in S : x <= y

\* a decision that ignores the metadata row (every sync a first sync)
SyncDecisionAlwaysFull(metadata, today_) == [needs_update |-> TRUE, start_date |-> today_ - LOOKBACK_DAYS]

\* Step 1: needs_update and start_date from the metadata row
SyncDecision(metadata, today_) ==
    IF ~metadata.exists
    THEN [needs_update |-> TRUE, start_date |-> today_ - LOOKBACK_DAYS]
    ELSE IF metadata.last_date < today_
    THEN [needs_update |-> TRUE, start_date |-> metadata.last_date + 1]
    ELSE [needs_update |-> FALSE, start_date |-> 0]

\* what ticker.history returns when it returns rows: the days start_date..e,
\* and the weeks from the Monday of start_date's week
ProviderDaily(start_date, e) == start_date .. e
ProviderWeekly(start_date, e) == {d \in WeekStart(start_date) .. e : Weekday(d) = 0}

\* the outcomes of _fetch_from_yfinance: (None, None), or a frame pair
FetchKinds == {"fail", "empty", "rows"}

calculate_full_daily_ma(df_old, df_new) == IF df_new = {} THEN df_old ELSE df_old \cup df_new
calculate_full_weekly_ma(df_old, df_new) == IF df_new = {} THEN df_old ELSE df_old \cup df_new

\* the row _update_metadata writes from the stored rows
metadata_values(daily_rows, weekly_rows) ==
    [exists |-> TRUE,
     first_date |-> IF daily_rows = {} THEN 0 ELSE SetMin(daily_rows),
     last_date |-> IF daily_rows = {} THEN 0 ELSE SetMax(daily_rows),
     daily_count |-> Cardinality(daily_rows), weekly_count |-> Cardinality(weekly_rows)]

\* a Step 1 whose with block reaches over the fetch
LockAfterStep1Held(t) == db_lock

\* the lock as Step 1 leaves it: released by the end of the with block
LockAfterStep1(t) == [db_lock EXCEPT ![instOf[t]] = 0]

\* Step 1 entered: lock taken, metadata read, decision made
Step1(t, s) ==
    /\ th[t].pc = "idle"
    /\ db_lock[instOf[t]] = 0
    /\ db_lock' = [db_lock EXCEPT ![instOf[t]] = t]
    /\ th' = [th EXCEPT ![t] = [IdleThread EXCEPT !.pc = "step1", !.symbol = s, !.metadata = data_metadata[s], !.today = today,
                                                  !.needs_update = SyncDecision(data_metadata[s], today).needs_update,
                                                  !.start_date = SyncDecision(data_metadata[s], today).start_date]]
    /\ UNCHANGED <<today, instOf, daily_prices, weekly_prices, data_metadata, writer, torn>>
    /\ UNCHANGED <<vars, fetch_failed, runVars, ruleVars>>

\* Step 1 left: the lock is released
Step1Exit(t) ==
    /\ th[t].pc = "step1"
    /\ db_lock' = LockAfterStep1(t)
    /\ th' = [th EXCEPT ![t].pc = IF th[t].needs_update THEN "fetch" ELSE "step4_wait"]
    /\ UNCHANGED <<today, instOf, daily_prices, weekly_prices, data_metadata, writer, torn>>
    /\ UNCHANGED <<vars, fetch_failed, runVars, ruleVars>>

\* Step 2: _fetch_from_yfinance(symbol, start_date, datetime.now().date()) returns
Fetch(t) ==
    /\ th[t].pc = "fetch"
    /\ \E kind \in FetchKinds, e \in {today - 1, today} :
          \E d \in {IF kind = "rows" THEN ProviderDaily(th[t].start_date, e) ELSE {}},
             w \in {IF kind = "rows" THEN ProviderWeekly(th[t].start_date, e) ELSE {}} :
             th' = [th EXCEPT ![t].fetches = @ + 1, ![t].metadata = NoMetadata, ![t].today = 0, ![t].start_date = 0,
                              ![t].df_new_daily = d, ![t].df_new_weekly = w,
                              ![t].pc = IF d # {} \/ w # {} THEN "step3_wait" ELSE "step4_wait"]
    /\ UNCHANGED <<today, instOf, db_lock, daily_prices, weekly_prices, data_metadata, writer, torn>>
    /\ UNCHANGED <<vars, fetch_failed, runVars, ruleVars>>

\* Step 3 entered: lock taken, old rows loaded, full frames computed
Step3Load(t) ==
    /\ th[t].pc = "step3_wait"
    /\ db_lock[instOf[t]] = 0
    /\ db_lock' = [db_lock EXCEPT ![instOf[t]] = t]
    /\ \E fd \in {calculate_full_daily_ma(daily_prices[th[t].symbol], th[t].df_new_daily)},
          fw \in {calculate_full_weekly_ma(weekly_prices[th[t].symbol], th[t].df_new_weekly)} :
          th' = [th EXCEPT ![t].pc = "step3", ![t].df_new_daily = {}, ![t].df_new_weekly = {}, ![t].df_full_daily = fd, ![t].df_full_weekly = fw]
    /\ UNCHANGED <<today, instOf, daily_prices, weekly_prices, data_metadata, writer, torn>>
    /\ UNCHANGED <<vars, fetch_failed, runVars, ruleVars>>

\* _save_to_db: BEGIN and the two DELETEs, which take SQLite's write lock
BeginDelete(t) ==
    /\ th[t].pc = "step3"
    /\ writer = 0
    /\ writer' = t
    /\ th' = [th EXCEPT ![t].pc = "deleted", ![t].pre = Rows(th[t].symbol)]
    /\ UNCHANGED <<today, instOf, db_lock, daily_prices, weekly_prices, data_metadata, torn>>
    /\ UNCHANGED <<vars, fetch_failed, runVars, ruleVars>>

\* _save_to_db: to_sql('daily_prices'), which commits the DELETEs with its rows
InsertDaily(t) ==
    /\ th[t].pc = "deleted"
    /\ IF th[t].df_full_daily # {}
       THEN /\ daily_prices' = [daily_prices EXCEPT ![th[t].symbol] = th[t].df_full_daily]
            /\ weekly_prices' = [weekly_prices EXCEPT ![th[t].symbol] = {}]
            /\ writer' = 0
            /\ torn' = [torn EXCEPT ![th[t].symbol] = (th[t].df_full_weekly # {})]
       ELSE UNCHANGED <<daily_prices, weekly_prices, writer, torn>>
    /\ th' = [th EXCEPT ![t].pc = "daily_in"]
    /\ UNCHANGED <<today, instOf, db_lock, data_metadata>>
    /\ UNCHANGED <<vars, fetch_failed, runVars, ruleVars>>

\* _save_to_db: to_sql('weekly_prices'), a transaction of its own unless the DELETEs are still open;
\* the rows are appended, and a row whose (symbol, week_start_date) is stored already makes
\* the INSERT raise (SaveFails)
InsertWeekly(t) ==
    /\ th[t].pc = "daily_in"
    /\ IF th[t].df_full_weekly # {}
       THEN /\ writer \in {0, t}
            /\ (writer = 0) => (weekly_prices[th[t].symbol] \cap th[t].df_full_weekly = {})
            /\ weekly_prices' = [weekly_prices EXCEPT ![th[t].symbol] = IF writer = t THEN th[t].df_full_weekly ELSE @ \cup th[t].df_full_weekly]
            /\ daily_prices' = IF writer = t THEN [daily_prices EXCEPT ![th[t].symbol] = {}] ELSE daily_prices
            /\ writer' = 0
            /\ torn' = [torn EXCEPT ![th[t].symbol] = (daily_prices'[th[t].symbol] # th[t].df_full_daily)]
       ELSE UNCHANGED <<daily_prices, weekly_prices, writer, torn>>
    /\ th' = [th EXCEPT ![t].pc = "weekly_in"]
    /\ UNCHANGED <<today, instOf, db_lock, data_metadata>>
    /\ UNCHANGED <<vars, fetch_failed, runVars, ruleVars>>

\* _save_to_db: conn.commit()
Commit(t) ==
    /\ th[t].pc = "weekly_in"
    /\ IF writer = t
       THEN /\ daily_prices' = [daily_prices EXCEPT ![th[t].symbol] = {}]
            /\ weekly_prices' = [weekly_prices EXCEPT ![th[t].symbol] = {}]
            /\ writer' = 0
            /\ torn' = [torn EXCEPT ![th[t].symbol] = FALSE]
       ELSE UNCHANGED <<daily_prices, weekly_prices, writer, torn>>
    /\ th' = [th EXCEPT ![t].pc = "saved", ![t].df_full_daily = {}, ![t].df_full_weekly = {}, ![t].pre = NoRows]
    /\ UNCHANGED <<today, instOf, db_lock, data_metadata>>
    /\ UNCHANGED <<vars, fetch_failed, runVars, ruleVars>>

\* _save_to_db raises at its next statement: rollback() drops what is uncommitted,
\* the exception leaves the lock and get_stock_data_with_cache returns None
SaveFails(t) ==
    /\ th[t].pc \in {"step3", "deleted", "daily_in", "weekly_in"}
    /\ writer' = IF writer = t THEN 0 ELSE writer
    /\ db_lock' = [db_lock EXCEPT ![instOf[t]] = 0]
    /\ th' = [th EXCEPT ![t].pc = "done", ![t].write_failed = TRUE, ![t].result = "None", ![t].df_full_daily = {}, ![t].df_full_weekly = {},
                        ![t].pre = IF th[t].pc = "step3" THEN Rows(th[t].symbol) ELSE @]
    /\ UNCHANGED <<today, instOf, daily_prices, weekly_prices, data_metadata, torn>>
    /\ UNCHANGED <<vars, fetch_failed, runVars, ruleVars>>

\* _update_metadata, then the end of the lock of Step 3
UpdateMetadata(t) ==
    /\ th[t].pc = "saved"
    /\ writer = 0
    /\ data_metadata' = [data_metadata EXCEPT ![th[t].symbol] = metadata_values(daily_prices[th[t].symbol], weekly_prices[th[t].symbol])]
    /\ db_lock' = [db_lock EXCEPT ![instOf[t]] = 0]
    /\ th' = [th EXCEPT ![t].pc = "step4_wait"]
    /\ UNCHANGED <<today, instOf, daily_prices, weekly_prices, writer, torn>>
    /\ UNCHANGED <<vars, fetch_failed, runVars, ruleVars>>

\* Step 4 entered: lock taken, final rows loaded
Step4Load(t) ==
    /\ th[t].pc = "step4_wait"
    /\ db_lock[instOf[t]] = 0
    /\ db_lock' = [db_lock EXCEPT ![instOf[t]] = t]
    /\ th' = [th EXCEPT ![t].pc = "step4", ![t].final_df_daily = daily_prices[th[t].symbol], ![t].final_df_weekly = weekly_prices[th[t].symbol],
                        ![t].loaded_torn = torn[th[t].symbol]]
    /\ UNCHANGED <<today, instOf, daily_prices, weekly_prices, data_metadata, writer, torn>>
    /\ UNCHANGED <<vars, fetch_failed, runVars, ruleVars>>

\* Step 4 left: None if the daily frame is empty, the two frames otherwise
Step4Exit(t) ==
    /\ th[t].pc = "step4"
    /\ db_lock' = [db_lock EXCEPT ![instOf[t]] = 0]
    /\ th' = [th EXCEPT ![t].pc = "done", ![t].result = IF th[t].final_df_daily = {} THEN "None" ELSE "frames",
                        ![t].final_df_daily = {}, ![t].final_df_weekly = {}]
    /\ UNCHANGED <<today, instOf, daily_prices, weekly_prices, data_metadata, writer, torn>>
    /\ UNCHANGED <<vars, fetch_failed, runVars, ruleVars>>

\* the call returns to its caller
Return(t) ==
    /\ th[t].pc = "done"
    /\ th' = [th EXCEPT ![t] = IdleThread]
    /\ UNCHANGED <<today, instOf, db_lock, daily_prices, weekly_prices, data_metadata, writer, torn>>
    /\ UNCHANGED <<vars, fetch_failed, runVars, ruleVars>>

\* midnight
CacheTick ==
    /\ today < MaxToday
    /\ today' = today + 1
    /\ UNCHANGED <<instOf, db_lock, daily_prices, weekly_prices, data_metadata, writer, th, torn>>
    /\ UNCHANGED <<vars, fetch_failed, runVars, ruleVars>>

\* the threads of the process call through one instance (the pool of one scan)
\* or through several (a scan and analyze_single_ticker, each with its HWBScanner)
CacheInit ==
    /\ bars = <<>>
    /\ weekly = <<>>
    /\ clock = 1
    /\ state = NoState
    /\ summary = <<>>
    /\ before = NoState
    /\ lastPath = "init"
    /\ fetched = 0
    /\ fetch_failed = FALSE
    /\ today = FirstDay
    /\ instOf \in {[t \in Threads |-> 1], [t \in Threads |-> t]}
    /\ db_lock = [inst \in Instances |-> 0]
    /\ daily_prices = [s \in Symbols |-> {}]
    /\ weekly_prices = [s \in Symbols |-> {}]
    /\ data_metadata = [s \in Symbols |-> NoMetadata]
    /\ writer = 0
    /\ th = [t \in Threads |-> IdleThread]
    /\ torn = [s \in Symbols |-> FALSE]
    /\ RunIdle
    /\ RulesIdle

CacheNext ==
    \/ \E t \in Threads, s \in Symbols : Step1(t, s)
    \/ \E t \in Threads : Step1Exit(t)
    \/ \E t \in Threads : Fetch(t)
    \/ \E t \in Threads : Step3Load(t)
    \/ \E t \in Threads : BeginDelete(t)
    \/ \E t \in Threads : InsertDaily(t)
    \/ \E t \in Threads : InsertWeekly(t)
    \/ \E t \in Threads : Commit(t)
    \/ \E t \in Threads : SaveFails(t)
    \/ \E t \in Threads : UpdateMetadata(t)
    \/ \E t \in Threads : Step4Load(t)
    \/ \E t \in Threads : Step4Exit(t)
    \/ \E t \in Threads : Return(t)
    \/ CacheTick

CacheSpec == CacheInit /\ [][CacheNext]_<<vars, fetch_failed, cacheVars, runVars>>


(***************************************************************************)
(* Properties of the price store.                                           *)
(***************************************************************************)
\* a thread inside a store read or write (one of the three with-lock blocks)
Inside(t) == th[t].pc \in {"step1", "step3", "deleted", "daily_in", "weekly_in", "saved", "step4"}

AtomicReplace ==
    /\ \A s \in Symbols : torn[s] => \E t \in Threads : th[t].symbol = s /\ th[t].pc = "daily_in"
    /\ \A t \in Threads : ~th[t].loaded_torn

\* C13: a failing _save_to_db leaves the rows it found and leaves the metadata row;
\* the metadata row changes only after a save that went through
FailedWriteRestores ==
    [][/\ \A t \in Threads : (~th[t].write_failed /\ th'[t].write_failed) =>
                                 (/\ daily_prices'[th[t].symbol] = th'[t].pre.daily
                                  /\ weekly_prices'[th[t].symbol] = th'[t].pre.weekly
                                  /\ data_metadata' = data_metadata)
       /\ data_metadata' # data_metadata => \E t \in Threads : th[t].pc = "saved" /\ ~th[t].write_failed]_<<vars, fetch_failed, cacheVars, runVars>>

\* C14: no two threads are inside a store read or write at once
StoreMutualExclusion == \A t, u \in Threads : (t # u /\ Inside(t)) => ~Inside(u)

\* C15: a thread in the network fetch does not hold the lock of its instance
FetchOutsideLock == \A t \in Threads : th[t].pc = "fetch" => db_lock[instOf[t]] # t

\* during one thread's fetch a thread of the same instance is inside the store
WitnessFetchOutsideLock ==
    \E t, u \in Threads : t # u /\ th[t].pc = "fetch" /\ instOf[u] = instOf[t] /\ db_lock[instOf[t]] = u /\ th[u].pc = "deleted"


(***************************************************************************)
(* HWBScanner.scan_all_symbols: the batches, the worker pool, the summary.  *)
(* A result entry is [symbol, signal_type, date]; a task that returns None  *)
(* and one that returns an empty list both return <<>> (`if result:`).      *)
(***************************************************************************)
\* how _analyze_and_save_symbol can end: an exception caught by its except, a None
\* return (no data, Rule 1 false), or the return of one entry of a category
TaskKinds == {"raised", "none", "signal_today", "signal_recent", "candidate"}

TaskResult(s, kind) ==
    IF kind \in {"raised", "none"} THEN <<>> ELSE <<[symbol |-> s, signal_type |-> kind, date |-> 1]>>

\* a slice that runs one symbol into the next batch
BatchOverlapping(symbols_, i_) == SubSeq(symbols_, i_ + 1, Min2(i_ + BATCH_SIZE + 1, Len(symbols_)))

\* symbols[i:i + BATCH_SIZE]
Batch(symbols_, i_) == SubSeq(symbols_, i_ + 1, Min2(i_ + BATCH_SIZE, Len(symbols_)))

\* a pool that starts a thread for every submitted task
PoolUnbounded(running) == TRUE

\* ThreadPoolExecutor(max_workers=MAX_WORKERS): a queued task starts when a worker is free
PoolHasFreeWorker(running) == Cardinality(running) < MAX_WORKERS

\* a collection that drops what was gathered when a task returns nothing
ExtendResultsOrReset(results, result) == IF result # <<>> THEN results \o result ELSE <<>>

\* `if result: all_results.extend(result)`
ExtendResults(results, result) == IF result # <<>> THEN results \o result ELSE results

\* a merge that keeps every item
MergeKeepAll(items, k) == SubSeq(items, k, Len(items))

\* a sort that leaves the items as they came
KeepOrder(q) == q

\* _merge_and_sort: the first item of every (symbol, date) key, sorted by symbol
RECURSIVE MergeFrom(_, _)
MergeFrom(items, k) ==
    IF k > Len(items) THEN <<>>
    ELSE (IF \A j \in 1 .. (k - 1) : <<items[j].symbol, items[j].date>> # <<items[k].symbol, items[k].date>> THEN <<items[k]>> ELSE <<>>)
         \o MergeFrom(items, k + 1)

InsertBySymbol(q, x, n) == SubSeq(q, 1, n) \o <<x>> \o SubSeq(q, n + 1, Len(q))

RECURSIVE SortedBySymbol(_)
SortedBySymbol(q) ==
    IF q = <<>> THEN <<>>
    ELSE InsertBySymbol(SortedBySymbol(SubSeq(q, 1, Len(q) - 1)), q[Len(q)],
                        Cardinality({k \in 1 .. (Len(q) - 1) : q[k].symbol <= q[Len(q)].symbol}))

merge_and_sort(items) == SortedBySymbol(MergeFrom(items, 1))

\* a summary that counts the symbols that returned entries
create_daily_summary_counting_results(results, total_scanned) ==
    [saved |-> TRUE, total_scanned |-> Cardinality({results[k].symbol : k \in 1 .. Len(results)}),
     signals_today |-> merge_and_sort(SelectSeq(results, LAMBDA r : r.signal_type = "signal_today")),
     signals_recent |-> merge_and_sort(SelectSeq(results, LAMBDA r : r.signal_type = "signal_recent")),
     candidates |-> merge_and_sort(SelectSeq(results, LAMBDA r : r.signal_type = "candidate"))]

\* _create_daily_summary (the counts are the lengths of the three lists)
create_daily_summary(results, total_scanned) ==
    [saved |-> TRUE, total_scanned |-> total_scanned,
     signals_today |-> merge_and_sort(SelectSeq(results, LAMBDA r : r.signal_type = "signal_today")),
     signals_recent |-> merge_and_sort(SelectSeq(results, LAMBDA r : r.signal_type = "signal_recent")),
     candidates |-> merge_and_sort(SelectSeq(results, LAMBDA r : r.signal_type = "candidate"))]

SeqRange(q) == {q[k] : k \in 1 .. Len(q)}
Running == {s \in Universe : task[s] = "running"}

\* the for loop enters a batch: the executor is created and every symbol of the slice submitted
StartBatch ==
    /\ phase = "loop"
    /\ i < Len(symbols)
    /\ \E batch \in {Batch(symbols, i)} :
          /\ task' = [s \in Universe |-> IF s \in SeqRange(batch) THEN "queued" ELSE task[s]]
          /\ batches' = Append(batches, batch)
    /\ phase' = "batch"
    /\ UNCHANGED <<symbols, i, ret, all_results, processed_count, daily_summary>>
    /\ UNCHANGED <<vars, fetch_failed, cacheVars, ruleVars>>

\* a free worker takes the oldest queued task
TaskStart(s) ==
    /\ task[s] = "queued"
    /\ \A k \in 1 .. Len(symbols) : task[symbols[k]] = "queued" => \E j \in 1 .. k : symbols[j] = s
    /\ PoolHasFreeWorker(Running)
    /\ task' = [task EXCEPT ![s] = "running"]
    /\ UNCHANGED <<symbols, i, phase, ret, all_results, processed_count, daily_summary, batches>>
    /\ UNCHANGED <<vars, fetch_failed, cacheVars, ruleVars>>

\* _analyze_and_save_symbol ends; its own except turns an exception into None
TaskEnd(s) ==
    /\ task[s] = "running"
    /\ \E kind \in TaskKinds :
          ret' = [ret EXCEPT ![s] = [kind |-> kind, result |-> TaskResult(s, kind)]]
    /\ task' = [task EXCEPT ![s] = "returned"]
    /\ UNCHANGED <<symbols, i, phase, all_results, processed_count, daily_summary, batches>>
    /\ UNCHANGED <<vars, fetch_failed, cacheVars, ruleVars>>

\* as_completed yields a finished future
Collect(s) ==
    /\ phase = "batch"
    /\ task[s] = "returned"
    /\ processed_count' = processed_count + 1
    /\ all_results' = ExtendResults(all_results, ret[s].result)
    /\ task' = [task EXCEPT ![s] = "collected"]
    /\ UNCHANGED <<symbols, i, phase, ret, daily_summary, batches>>
    /\ UNCHANGED <<vars, fetch_failed, cacheVars, ruleVars>>

\* every future of the batch was yielded: the with block ends, the loop sleeps and goes on
EndBatch ==
    /\ phase = "batch"
    /\ \A s \in Universe : task[s] \in {"none", "collected"}
    /\ i' = i + BATCH_SIZE
    /\ phase' = "loop"
    /\ UNCHANGED <<symbols, task, ret, all_results, processed_count, daily_summary, batches>>
    /\ UNCHANGED <<vars, fetch_failed, cacheVars, ruleVars>>

\* after the loop: _create_daily_summary and save_daily_summary
Finish ==
    /\ phase = "loop"
    /\ i >= Len(symbols)
    /\ daily_summary' = create_daily_summary(all_results, Len(symbols))
    /\ phase' = "done"
    /\ UNCHANGED <<symbols, i, task, ret, all_results, processed_count, batches>>
    /\ UNCHANGED <<vars, fetch_failed, cacheVars, ruleVars>>

\* a run starts on a universe of any size, the empty one included
RunInit ==
    /\ bars = <<>>
    /\ weekly = <<>>
    /\ clock = 1
    /\ state = NoState
    /\ summary = <<>>
    /\ before = NoState
    /\ lastPath = "init"
    /\ fetched = 0
    /\ fetch_failed = FALSE
    /\ CacheIdle
    /\ \E total \in 0 .. MaxSymbols : symbols = [k \in 1 .. total |-> k]
    /\ i = 0
    /\ phase = "loop"
    /\ task = [s \in Universe |-> "none"]
    /\ ret = [s \in Universe |-> NoReturn]
    /\ all_results = <<>>
    /\ processed_count = 0
    /\ daily_summary = NoSummary
    /\ batches = <<>>
    /\ RulesIdle

RunNext ==
    \/ StartBatch
    \/ \E s \in Universe : TaskStart(s)
    \/ \E s \in Universe : TaskEnd(s)
    \/ \E s \in Universe : Collect(s)
    \/ EndBatch
    \/ Finish

allVars == <<vars, fetch_failed, cacheVars, runVars>>

\* the event loop runs the coroutine on, the pool runs its tasks, and every task ends
\* (the network calls carry timeouts, the store lock is never held across a wait)
RunSpec == RunInit /\ [][RunNext]_allVars /\ WF_allVars(RunNext)


(***************************************************************************)
(* Properties of the run.                                                   *)
(***************************************************************************)
Completed(s) == task[s] \in {"returned", "collected"}
Started(s) == task[s] \in {"running", "returned", "collected"}
Succeeded(s) == ret[s].result # <<>>
SummaryEntries == SeqRange(daily_summary.signals_today) \cup SeqRange(daily_summary.signals_recent) \cup SeqRange(daily_summary.candidates)

RECURSIVE Flatten(_)
Flatten(qs) == IF qs = <<>> THEN <<>> ELSE Head(qs) \o Flatten(Tail(qs))

\* C17: when the run has ended every symbol was analysed, whatever the others did; every
\* entry a symbol returned is in the results and in the summary; a symbol whose analysis
\* raised has no entry in them
FailureIsolation ==
    phase = "done" =>
        /\ \A k \in 1 .. Len(symbols) : task[symbols[k]] = "collected"
        /\ \A s \in Universe : SeqRange(ret[s].result) \subseteq (SeqRange(all_results) \cap SummaryEntries)
        /\ \A s \in Universe : ret[s].kind = "raised" => \A k \in 1 .. Len(all_results) : all_results[k].symbol # s

\* a symbol of the first batch raised; one of the same batch and one of the next returned entries
WitnessFailureIsolation ==
    /\ phase = "done"
    /\ Len(batches) = 2
    /\ \E r, a \in SeqRange(batches[1]), b \in SeqRange(batches[2]) : ret[r].kind = "raised" /\ Succeeded(a) /\ Succeeded(b)

\* C18: every run ends with a saved summary; its total_scanned is the size of the
\* universe, and its three lists are empty when no symbol returned an entry
RunProducesSummary ==
    /\ <>(phase = "done")
    /\ [](phase = "done" =>
            /\ daily_summary.saved
            /\ daily_summary.total_scanned = Len(symbols)
            /\ (\A s \in Universe : ~Succeeded(s)) =>
                   (daily_summary.signals_today = <<>> /\ daily_summary.signals_recent = <<>> /\ daily_summary.candidates = <<>>))

\* a run over two batches in which no symbol succeeded and one raised has saved its summary
WitnessRunProducesSummary ==
    /\ phase = "done"
    /\ Len(batches) = 2
    /\ \A s \in Universe : ~Succeeded(s)
    /\ \E s \in Universe : ret[s].kind = "raised"
    /\ daily_summary.saved /\ daily_summary.total_scanned = Len(symbols)

\* C19: a task of a batch has started only if every task of the batch before has
\* completed, and at most MAX_WORKERS tasks are running
BatchesSequential ==
    /\ \A k \in 1 .. (Len(batches) - 1) :
          (\E s \in SeqRange(batches[k + 1]) : Started(s)) => \A s \in SeqRange(batches[k]) : Completed(s)
    /\ Cardinality(Running) <= MAX_WORKERS

\* in the second batch MAX_WORKERS tasks are running
WitnessBatchesSequential == Len(batches) = 2 /\ Cardinality(Running) = MAX_WORKERS /\ Running \subseteq SeqRange(batches[2])

\* C20: no symbol is submitted twice, no batch is longer than BATCH_SIZE, and at the end
\* of the run the batches, one after the other, are the universe
BatchesPartition ==
    /\ \A k \in 1 .. Len(batches) : Len(batches[k]) <= BATCH_SIZE
    /\ \A s \in Universe : Cardinality({k \in 1 .. Len(Flatten(batches)) : Flatten(batches)[k] = s}) <= 1
    /\ phase = "done" => Flatten(batches) = symbols

\* a run has ended whose last batch is not full
WitnessBatchesPartition == phase = "done" /\ Len(batches) = 2 /\ Len(batches[1]) = BATCH_SIZE /\ Len(batches[2]) < BATCH_SIZE


(***************************************************************************)
(* The aggregation of scan_all_symbols on its own: the as_completed loop    *)
(* extends all_results by what a task returned, _create_daily_summary       *)
(* builds the three lists from all_results.  A task returns up to           *)
(* MaxEntries entries; the dates are day numbers.  Here                     *)
(*   ret[s]         is what the task of symbol s returned, once fed         *)
(*   task[s]        is "collected" once the result of s was fed             *)
(*   processed_count counts the feeds                                       *)
(*   daily_summary  is the summary built from all_results after each feed   *)
(***************************************************************************)
MaxFeeds == 3
MaxEntries == 2
MaxEntryDate == 2

EntryTypes == {"signal_today", "signal_recent", "candidate"}
EntriesOf(s) == [symbol : {s}, signal_type : EntryTypes, date : 1 .. MaxEntryDate]
\* the lists a task of symbol s can return (None and [] are both <<>>)
ResultsOf(s) == UNION {[1 .. n -> EntriesOf(s)] : n \in 0 .. MaxEntries}

\* the as_completed loop yields the future of a symbol for the first time
FeedNew(s) ==
    /\ processed_count < MaxFeeds
    /\ task[s] = "none"
    /\ \E result \in ResultsOf(s) :
          /\ ret' = [ret EXCEPT ![s] = [kind |-> "fed", result |-> result]]
          /\ all_results' = ExtendResults(all_results, result)
          /\ daily_summary' = create_daily_summary(ExtendResults(all_results, result), Len(symbols))
    /\ task' = [task EXCEPT ![s] = "collected"]
    /\ processed_count' = processed_count + 1
    /\ UNCHANGED <<symbols, i, phase, batches>>
    /\ UNCHANGED <<vars, fetch_failed, cacheVars, ruleVars>>

\* the result of a symbol is fed into the aggregation once more
FeedAgain(s) ==
    /\ processed_count < MaxFeeds
    /\ task[s] = "collected"
    /\ all_results' = ExtendResults(all_results, ret[s].result)
    /\ daily_summary' = create_daily_summary(ExtendResults(all_results, ret[s].result), Len(symbols))
    /\ processed_count' = processed_count + 1
    /\ UNCHANGED <<symbols, i, phase, task, ret, batches>>
    /\ UNCHANGED <<vars, fetch_failed, cacheVars, ruleVars>>

AggInit ==
    /\ bars = <<>>
    /\ weekly = <<>>
    /\ clock = 1
    /\ state = NoState
    /\ summary = <<>>
    /\ before = NoState
    /\ lastPath = "init"
    /\ fetched = 0
    /\ fetch_failed = FALSE
    /\ CacheIdle
    /\ symbols = <<1, 2, 3>>
    /\ i = 0
    /\ phase = "loop"
    /\ task = [s \in Universe |-> "none"]
    /\ ret = [s \in Universe |-> NoReturn]
    /\ all_results = <<>>
    /\ processed_count = 0
    /\ daily_summary = create_daily_summary(<<>>, 3)
    /\ batches = <<>>
    /\ RulesIdle

AggNext ==
    \/ \E s \in SeqRange(symbols) : FeedNew(s)
    \/ \E s \in SeqRange(symbols) : FeedAgain(s)

AggSpec == AggInit /\ [][AggNext]_allVars

(***************************************************************************)
(* Properties of the aggregation.                                           *)
(***************************************************************************)
SummaryLists(d) == <<d.signals_today, d.signals_recent, d.candidates>>

\* the results of the symbols fed so far, each once, in the order of the symbols
RECURSIVE OnceInSymbolOrder(_)
OnceInSymbolOrder(s) ==
    IF s > MaxSymbols THEN <<>>
    ELSE (IF task[s] = "collected" THEN ret[s].result ELSE <<>>) \o OnceInSymbolOrder(s + 1)

\* C21: the three lists are those built from the results of the fed symbols taken
\* once each in one fixed order, in whatever order and however often they were fed
AggregationCommutativeIdempotent ==
    SummaryLists(daily_summary) = SummaryLists(create_daily_summary(OnceInSymbolOrder(1), Len(symbols)))

\* a symbol was fed after a later one, and one result with entries was fed twice
WitnessAggregation ==
    /\ \E k \in 1 .. (Len(all_results) - 1) : all_results[k].symbol > all_results[k + 1].symbol
    /\ \E s \in SeqRange(symbols) :
          /\ ret[s].result # <<>>
          /\ Cardinality({k \in 1 .. Len(all_results) : all_results[k] = ret[s].result[1]}) >= 2
    /\ Len(daily_summary.signals_today) >= 2

KeysDistinct(q) == \A j, k \in 1 .. Len(q) : (q[j].symbol = q[k].symbol /\ q[j].date = q[k].date) => j = k
SymbolsAscending(q) == \A k \in 1 .. (Len(q) - 1) : q[k].symbol <= q[k + 1].symbol

\* C22: each of the three lists holds at most one entry per (symbol, date) and is
\* ordered by non-decreasing symbol
ListsDeduplicatedSorted ==
    \A q \in {daily_summary.signals_today, daily_summary.signals_recent, daily_summary.candidates} :
        KeysDistinct(q) /\ SymbolsAscending(q)

\* the results held two candidates of one (symbol, date) and came in descending symbol
\* order; the list holds two symbols
WitnessDeduplicatedSorted ==
    /\ \E j, k \in 1 .. Len(all_results) :
          /\ j < k
          /\ all_results[j] = all_results[k]
          /\ all_results[j].signal_type = "candidate"
    /\ \E k \in 1 .. (Len(all_results) - 1) :
          /\ all_results[k].symbol > all_results[k + 1].symbol
          /\ all_results[k].signal_type = "candidate" /\ all_results[k + 1].signal_type = "candidate"
    /\ Len(daily_summary.candidates) >= 2


(***************************************************************************)
(* Properties of the summary a run returns for the symbol.                  *)
(***************************************************************************)
Listed(entries, signal_type, date) == [symbol |-> Symbol, signal_type |-> signal_type, date |-> date] \in SeqToSet(entries)

\* the Signals of the record st are bucketed in `entries` against the day scan_date
Bucketed(st, entries, scan_date) ==
    \A j \in 1 .. Len(st.signals) :
        /\ Listed(entries, "signal_today", st.signals[j].breakout_date) <=> st.signals[j].breakout_date = scan_date
        /\ Listed(entries, "signal_recent", st.signals[j].breakout_date) <=>
               (BusinessDaysBack(scan_date, SUMMARY_BUSINESS_DAYS) <= st.signals[j].breakout_date /\ st.signals[j].breakout_date < scan_date)

\* C23: after a run, a Signal of the record is listed as signal_today exactly when its
\* breakout date is the scan date, and as signal_recent exactly when its breakout date
\* is one of the five business days before the scan date; else it is not listed
SignalBucketing == [][clock' = clock => Bucketed(state', summary', CalDate(clock'))]_vars


(***************************************************************************)
(* The scanner over a longer history: the first sync of a symbol fetches    *)
(* its whole history at once.  Here the history holds LongFirst - 1 to      *)
(* MaxLongBars bars, drawn from QuietKinds, in a weekly uptrend; the bars   *)
(* of later syncs are drawn from BarKinds.                                  *)
(***************************************************************************)
MaxLongBars == 10
LongFirst == 9

QuietKinds == {KS, KG}

LongInit ==
    /\ bars = <<>>
    /\ weekly = <<>>
    /\ clock \in LongFirst .. (MaxLongBars + 1)
    /\ state = NoState
    /\ summary = <<>>
    /\ before = NoState
    /\ lastPath = "init"
    /\ fetched = 0
    /\ fetch_failed = FALSE
    /\ CacheIdle
    /\ RunIdle
    /\ RulesIdle

LongTick ==
    /\ Len(bars) > 0
    /\ clock - Len(bars) < MaxAhead
    /\ clock < MaxLongBars + 1
    /\ clock' = clock + 1
    /\ UNCHANGED <<bars, weekly, state, summary, before, lastPath, fetched>>
    /\ UNCHANGED <<fetch_failed, cacheVars, runVars, ruleVars>>

\* HWBScanner._analyze_and_save_symbol: sync the cache, then analyse
LongScan ==
    \E upto \in {Len(bars), clock - 1, clock} :
        /\ upto >= Len(bars)
        /\ upto <= MaxLongBars
        /\ \E kinds \in [1 .. (upto - Len(bars)) -> IF Len(bars) = 0 THEN QuietKinds ELSE BarKinds],
              wkinds \in [Mondays(Len(bars) + 1, upto) -> {WUp}] :
              \E r \in {analyze(SyncedDaily(upto, kinds), SyncedWeekly(upto, wkinds), state, CalDate(clock))} :
                 /\ bars' = SyncedDaily(upto, kinds)
                 /\ weekly' = SyncedWeekly(upto, wkinds)
                 /\ state' = IF r.persist THEN r.data ELSE state
                 /\ summary' = r.summary
                 /\ before' = state
                 /\ lastPath' = r.path
                 /\ fetched' = upto - Len(bars)
                 /\ UNCHANGED clock
                 /\ fetch_failed' = FALSE
                 /\ UNCHANGED <<cacheVars, runVars, ruleVars>>

LongNext == LongTick \/ LongScan

LongSpec == LongInit /\ [][LongNext]_vars

\* the window of the summary of a run: the five business days before the latest
\* market date, and that date
InSummaryWindow(d) == BusinessDaysBack(LastDate, SUMMARY_BUSINESS_DAYS) <= d /\ d <= LastDate

ActiveGapDates(st) == {st.fvgs[k].formation_date : k \in {j \in 1 .. Len(st.fvgs) : st.fvgs[j].status = "active"}}

AllListed(st, entries) ==
    /\ \A j \in 1 .. Len(st.signals) :
          InSummaryWindow(st.signals[j].breakout_date) =>
              (Listed(entries, "signal_today", st.signals[j].breakout_date) \/ Listed(entries, "signal_recent", st.signals[j].breakout_date))
    /\ \A d \in ActiveGapDates(st) : InSummaryWindow(d) => Listed(entries, "candidate", d)

\* C25: a run whose sync succeeded returns, for a symbol with a persisted record, every
\* Signal and every active GapZone of the record that falls in a window of the summary
SummaryRebuiltFromState == lastPath # "init" => (state.exists => AllListed(state, summary))


(***************************************************************************)
(* The detectors applied on their own: the frames are drawn at the start    *)
(* and one detector is applied to them.                                     *)
(***************************************************************************)
MaxWeeks == 3
MaxGapBars == 4

\* weekly bars for the trend filter
TrendKinds == [close : {95, 100, 105}, sma200 : {NaN, 0, 100}]
\* weekly bars dated on successive Mondays
TrendFrames == UNION {{[k \in 1 .. n |-> MkWeekly(kinds[k], 1 + 7 * (k - 1))] : kinds \in [1 .. n -> TrendKinds]} : n \in 0 .. MaxWeeks}
CheckDates == 0 .. (7 * MaxWeeks + 1)

\* daily bars around the zone of sma200 100 and ema200 110
ZonePrices == {97, 98, 100, 105, 112, 113, 120}
ZoneKinds == {[open |-> o, high |-> Max2(o, c), low |-> Min2(o, c), close |-> c, sma200 |-> s, ema200 |-> e] :
                 o \in ZonePrices, c \in ZonePrices, s \in {100, NaN}, e \in {110, NaN}}
\* a bar that is no setup and whose range of 40 widens the zone once the ATR exists
KWide == [open |-> 150, high |-> 170, low |-> 130, close |-> 150, sma200 |-> 100, ema200 |-> 110]
\* one bar, or ATR_PERIOD - 1 wide bars and one bar
ZoneFrames == {<<MkBar(k, 1)>> : k \in ZoneKinds}
              \cup {[p \in 1 .. ATR_PERIOD |-> IF p < ATR_PERIOD THEN MkBar(KWide, CalDate(p)) ELSE MkBar(k, CalDate(p))] : k \in ZoneKinds}
ZoneWeekly == {<<>>, <<MkWeekly(WUp, 1)>>, <<MkWeekly(WDown, 1)>>}

\* daily bars around a first bar whose high is 2000, sma200 and ema200 at 2000
GapKinds == {[open |-> 1995, high |-> 2000, low |-> 1990, close |-> 1995, sma200 |-> 2000, ema200 |-> 2000],
             \* third bars: no gap, 0.05 percent, 0.1 percent, 5 percent, far from the averages, no averages
             [open |-> 2005, high |-> 2010, low |-> 2000, close |-> 2005, sma200 |-> 2000, ema200 |-> 2000],
             [open |-> 2005, high |-> 2010, low |-> 2001, close |-> 2005, sma200 |-> 2000, ema200 |-> 2000],
             [open |-> 2005, high |-> 2010, low |-> 2002, close |-> 2005, sma200 |-> 2000, ema200 |-> 2000],
             [open |-> 2100, high |-> 2110, low |-> 2100, close |-> 2100, sma200 |-> 2000, ema200 |-> 2000],
             [open |-> 2500, high |-> 2510, low |-> 2500, close |-> 2500, sma200 |-> 2000, ema200 |-> 2000],
             [open |-> 2100, high |-> 2110, low |-> 2100, close |-> 2100, sma200 |-> NaN, ema200 |-> NaN]}
GapFrames == UNION {{[k \in 1 .. n |-> MkBar(kinds[k], CalDate(k))] : kinds \in [1 .. n -> GapKinds]} : n \in 3 .. MaxGapBars}

\* daily bars in hundredths after a Setup bar of high 4900, a bar of high 5000 (the
\* resistance) and a formation bar of low 4950 (lower_bound 4900, violated below 4802)
MaxAfterBars == 3
BreakHead == <<[open |-> 4880, high |-> 4900, low |-> 4870, close |-> 4890, sma200 |-> 5000, ema200 |-> 5000],
               [open |-> 4950, high |-> 5000, low |-> 4940, close |-> 4960, sma200 |-> 5000, ema200 |-> 5000],
               [open |-> 4960, high |-> 4980, low |-> 4950, close |-> 4970, sma200 |-> 5000, ema200 |-> 5000]>>
\* closes of 5004 and 5006, lows of 4800 and 4700
AfterKinds == {[open |-> 4990, high |-> c, low |-> l, close |-> c, sma200 |-> 5000, ema200 |-> 5000] :
                  c \in {5004, 5006}, l \in {4700, 4800, 4950}}
BreakFrames == UNION {{[k \in 1 .. (3 + n) |-> MkBar(IF k <= 3 THEN BreakHead[k] ELSE kinds[k - 3], CalDate(k))] :
                          kinds \in [1 .. n -> AfterKinds]} : n \in 1 .. MaxAfterBars}

\* <<daily frame, weekly frame>>
RuleInputs == ({<<>>} \X TrendFrames) \cup (ZoneFrames \X ZoneWeekly) \cup ((GapFrames \cup BreakFrames) \X {<<>>})

\* the setup the gap detectors are given: the bar at position p
SetupAt(p) == [id |-> 1, date |-> Bar(bars, p).date, type |-> "PRIMARY", status |-> "active", weekly_deviation |-> NaN]

RuleInit ==
    /\ \E input \in RuleInputs : bars = input[1] /\ weekly = input[2]
    /\ clock = 1
    /\ state = NoState
    /\ summary = <<>>
    /\ before = NoState
    /\ lastPath = "init"
    /\ fetched = 0
    /\ fetch_failed = FALSE
    /\ CacheIdle
    /\ RunIdle
    /\ RulesIdle

CallTrend(d) ==
    /\ called = NoCall
    /\ called' = [fn |-> "check_weekly_trend_at_date", args |-> <<d>>]
    /\ returned' = check_weekly_trend_at_date(weekly, d)
    /\ UNCHANGED <<vars, fetch_failed, cacheVars, runVars>>

CallRule2 ==
    /\ called = NoCall
    /\ called' = [fn |-> "optimized_rule2_setups", args |-> <<>>]
    /\ returned' = optimized_rule2_setups(bars, weekly, TRUE, 0, 1)
    /\ UNCHANGED <<vars, fetch_failed, cacheVars, runVars>>

CallFvg(p) ==
    /\ called = NoCall
    /\ p \in Positions(bars)
    /\ called' = [fn |-> "optimized_fvg_detection", args |-> <<p>>]
    /\ returned' = optimized_fvg_detection(bars, SetupAt(p), 2)
    /\ UNCHANGED <<vars, fetch_failed, cacheVars, runVars>>

CallFvgRange(start_idx, end_idx) ==
    /\ called = NoCall
    /\ Len(bars) > 0
    /\ start_idx <= end_idx
    /\ end_idx <= Len(bars)
    /\ called' = [fn |-> "_detect_fvg_in_range", args |-> <<start_idx, end_idx>>]
    /\ returned' = detect_fvg_in_range(bars, SetupAt(0), start_idx, end_idx, 2)
    /\ UNCHANGED <<vars, fetch_failed, cacheVars, runVars>>

\* the detector of the full scan for the Setup at position 0 and the window that ends at position 2
CallBreakout ==
    /\ called = NoCall
    /\ Len(bars) >= 3
    /\ called' = [fn |-> "optimized_breakout_detection_all_periods", args |-> <<0, 2>>]
    /\ returned' = optimized_breakout_detection_all_periods(bars, SetupAt(0), MkFvg(bars, SetupAt(0), 2, 2))
    /\ UNCHANGED <<vars, fetch_failed, cacheVars, runVars>>

RuleNext ==
    \/ \E d \in CheckDates : CallTrend(d)
    \/ CallRule2
    \/ \E p \in 0 .. 1 : CallFvg(p)
    \/ \E a \in 0 .. MaxGapBars, b \in 0 .. MaxGapBars : CallFvgRange(a, b)
    \/ CallBreakout

RuleSpec == RuleInit /\ [][RuleNext]_<<vars, ruleVars>>

\* the weekly bars dated on or before d
WeeklyUpTo(d) == {k \in 1 .. Len(weekly) : weekly[k].date <= d}
\* the last of them
LastWeeklyUpTo(d) == weekly[CHOOSE k \in WeeklyUpTo(d) : \A j \in WeeklyUpTo(d) : j <= k]

\* C26: check_weekly_trend_at_date(weekly, d) is true exactly when a weekly bar dated
\* on or before d exists and the last such bar has an sma200 that is neither null nor
\* zero and a deviation (close - sma200) / sma200 of at least the threshold
TrendAtDate ==
    called.fn = "check_weekly_trend_at_date" =>
        (returned <=> /\ WeeklyUpTo(called.args[1]) # {}
                      /\ LastWeeklyUpTo(called.args[1]).sma200 \notin {NaN, 0}
                      /\ (LastWeeklyUpTo(called.args[1]).close - LastWeeklyUpTo(called.args[1]).sma200) * 1000
                             >= WEEKLY_TREND_THRESHOLD * LastWeeklyUpTo(called.args[1]).sma200)

\* the filter passed on a bar of close 105 and sma200 100 although a later bar, dated
\* after d, has close 95
WitnessTrendAtDate ==
    /\ called.fn = "check_weekly_trend_at_date"
    /\ returned = TRUE
    /\ LastWeeklyUpTo(called.args[1]).close = 105
    /\ \E k \in 1 .. Len(weekly) : weekly[k].date > called.args[1] /\ weekly[k].close = 95 /\ weekly[k].sma200 = 100

\* the setups returned that carry the date of the bar at position p
SetupsAt(p) == {k \in 1 .. Len(returned) : returned[k].date = Bar(bars, p).date}
OpenIn(p) == InZone(bars, p, ZoneScale * Bar(bars, p).open)
CloseIn(p) == InZone(bars, p, ZoneScale * Bar(bars, p).close)
MidpointIn(p) == InZone(bars, p, (ZoneScale \div 2) * (Bar(bars, p).open + Bar(bars, p).close))

\* C29: a daily bar yields at most one Setup; when it passes the trend filter at its own
\* date and has sma200 and ema200, it yields a PRIMARY Setup exactly when open and close
\* are both inside the zone, and a SECONDARY Setup exactly when exactly one of them is
\* inside the zone and their midpoint is inside the zone
SetupClassification ==
    called.fn = "optimized_rule2_setups" =>
        \A p \in Positions(bars) :
            /\ Cardinality(SetupsAt(p)) <= 1
            /\ (/\ check_weekly_trend_at_date(weekly, Bar(bars, p).date)
                /\ Bar(bars, p).sma200 # NaN
                /\ Bar(bars, p).ema200 # NaN)
               => /\ (\E k \in SetupsAt(p) : returned[k].type = "PRIMARY") <=> (OpenIn(p) /\ CloseIn(p))
                  /\ (\E k \in SetupsAt(p) : returned[k].type = "SECONDARY") <=> ((OpenIn(p) # CloseIn(p)) /\ MidpointIn(p))

\* the last bar of a frame long enough for the ATR is a SECONDARY Setup: its open is
\* inside the zone, its close is outside
WitnessSetupClassification ==
    /\ called.fn = "optimized_rule2_setups"
    /\ Len(bars) = ATR_PERIOD
    /\ OpenIn(Len(bars) - 1) /\ ~CloseIn(Len(bars) - 1)
    /\ \E k \in SetupsAt(Len(bars) - 1) : returned[k].type = "SECONDARY"

\* C27: every GapZone returned by the detector of the full scan or by the detector of
\* the incremental re-scan has a gap_percentage of at least 0.001 and an upper_bound
\* above its lower_bound, the lower_bound being the high of the first bar and the
\* upper_bound the low of the third bar of the window that ends at its formation date
GapValidity ==
    called.fn \in {"optimized_fvg_detection", "_detect_fvg_in_range"} =>
        \A k \in 1 .. Len(returned) :
            /\ returned[k].gap_percentage.num * 1000 >= FVG_MIN_GAP_PERCENTAGE * returned[k].gap_percentage.den
            /\ returned[k].upper_bound > returned[k].lower_bound
            /\ GetLoc(bars, returned[k].formation_date) >= 2
            /\ returned[k].lower_bound = Bar(bars, GetLoc(bars, returned[k].formation_date) - 2).high
            /\ returned[k].upper_bound = Bar(bars, GetLoc(bars, returned[k].formation_date)).low
            /\ returned[k].gap_percentage.num * returned[k].lower_bound
                   = (returned[k].upper_bound - returned[k].lower_bound) * returned[k].gap_percentage.den

\* the detector of the incremental re-scan returned a gap of exactly 0.1 percent and the
\* frame holds a narrower gap that it did not return
WitnessGapValidity ==
    /\ called.fn = "_detect_fvg_in_range"
    /\ \E k \in 1 .. Len(returned) : returned[k].gap_percentage.num * 1000 = returned[k].gap_percentage.den
    /\ \E p \in called.args[1] .. (called.args[2] - 1) :
          /\ p >= 2
          /\ Bar(bars, p).low = Bar(bars, p - 2).high + 1
          /\ \A k \in 1 .. Len(returned) : returned[k].formation_date # Bar(bars, p).date

(***************************************************************************)
(* Properties of the first run of a symbol.                                 *)
(***************************************************************************)
\* what the setup, gap and breakout detectors find over the whole of the frames
FullScanOf(df_daily, df_weekly) == FullSetupLoop(df_daily, 1, FullStart(optimized_rule2_setups(df_daily, df_weekly, TRUE, 0, 1)))

\* the full scan found a Signal or a GapZone that is still active
YieldsSignalOrActiveGap(r) == Len(r.all_signals) > 0 \/ \E k \in 1 .. Len(r.all_fvgs) : r.all_fvgs[k].status = "active"

SearchWindow(s) == (s + 2) .. Min2(s + fvg_search_days, Len(bars) - 1)

\* C30: the gap detector applied to the Setup at position s returns one GapZone for
\* every window that qualifies and whose third bar is in the search window, the latest
\* bar of the frame included, and no GapZone for any other bar
GapSearchComplete ==
    called.fn = "optimized_fvg_detection" =>
        /\ \A p \in SearchWindow(called.args[1]) :
              IsFvgAt(bars, p) => Cardinality({k \in 1 .. Len(returned) : returned[k].formation_date = Bar(bars, p).date}) = 1
        /\ \A k \in 1 .. Len(returned) : GetLoc(bars, returned[k].formation_date) \in SearchWindow(called.args[1])

(***************************************************************************)
(* Properties of the incremental re-scan.                                   *)
(***************************************************************************)
\* no two GapZones of the record carry the same setup_id and the same formation date
NoDuplicateGaps(st) ==
    \A j \in 1 .. Len(st.fvgs), k \in 1 .. Len(st.fvgs) :
        (j # k /\ st.fvgs[j].setup_id = st.fvgs[k].setup_id) => st.fvgs[j].formation_date # st.fvgs[k].formation_date

\* C31: every GapZone an incremental re-scan adds to the record is dated after the
\* watermark and after every GapZone the record held for its Setup, and the record
\* never holds two GapZones with the same setup_id and the same formation date
GapSearchNeverDuplicates ==
    [][clock' = clock =>
          /\ NoDuplicateGaps(state')
          /\ lastPath' = "diff" =>
                \A k \in (Len(state.fvgs) + 1) .. Len(state'.fvgs) :
                    /\ state'.fvgs[k].formation_date > state.last_updated
                    /\ \A j \in 1 .. Len(state.fvgs) :
                          state.fvgs[j].setup_id = state'.fvgs[k].setup_id => state'.fvgs[k].formation_date > state.fvgs[j].formation_date]_vars

\* an incremental re-scan added a GapZone to a Setup that already owned one
WitnessGapSearchNeverDuplicates ==
    /\ lastPath = "diff"
    /\ \E k \in (Len(before.fvgs) + 1) .. Len(state.fvgs) :
          \E j \in 1 .. Len(before.fvgs) : before.fvgs[j].setup_id = state.fvgs[k].setup_id

(***************************************************************************)
(* Properties of the breakout and violation detection.                      *)
(***************************************************************************)
\* the maximum high of the bars after the Setup bar and before the formation bar of g
ResistanceOf(df, st, g) == MaxHigh(df, GetLoc(df, SetupOf(st, g.setup_id).date) + 1, GetLoc(df, g.formation_date))

\* the bars after the formation bar of g whose close is above resistance x 1.001
ClosesAboveBars(df, st, g) ==
    {p \in (GetLoc(df, g.formation_date) + 1) .. (Len(df) - 1) : Bar(df, p).close * 1000 > ResistanceOf(df, st, g) * 1001}

\* C32: for a Setup and GapZone that no bar violates, the Signal's breakout_date is the
\* date of the earliest bar after the formation bar whose close is above resistance x
\* 1.001, resistance being the maximum high of the bars between the Setup bar and the
\* formation bar, whether a full scan or an incremental re-scan emitted the Signal
BreakoutAtEarliestBar ==
    \A j \in 1 .. Len(state.signals) :
        ViolationBars(bars, state.signals[j]) = {} =>
            /\ state.signals[j].resistance_price = ResistanceOf(bars, state, state.signals[j])
            /\ GetLoc(bars, state.signals[j].breakout_date) \in ClosesAboveBars(bars, state, state.signals[j])
            /\ \A p \in ClosesAboveBars(bars, state, state.signals[j]) : GetLoc(bars, state.signals[j].breakout_date) <= p

\* the bars at or after position p whose low is below lower_bound x 0.98, lower_bound
\* being the high of the bar two positions before p
BreachBars(p) == {q \in p .. (Len(bars) - 1) : Bar(bars, q).low * 100 < Bar(bars, p - 2).high * 98}

\* C33: when the detector of the full scan reports a GapZone violated, the violated_date
\* is the date of the first bar at or after the formation bar whose low is below
\* lower_bound x 0.98, and no breakout is reported
ViolationDating ==
    (called.fn = "optimized_breakout_detection_all_periods" /\ returned.status = "violated") =>
        /\ BreachBars(called.args[2]) # {}
        /\ \A q \in BreachBars(called.args[2]) : returned.violated_date <= Bar(bars, q).date
        /\ returned.violated_date \in {Bar(bars, q).date : q \in BreachBars(called.args[2])}
        /\ returned.breakout_date = NaN

\* the dates of the bars after the date d that the setup detector classifies as a Setup
SetupDatesAfter(df_daily, df_weekly, d) ==
    {Bar(df_daily, p).date : p \in {q \in Positions(df_daily) : Bar(df_daily, q).date > d /\ SetupTypeAt(df_daily, df_weekly, q) # "NONE"}}

\* C34: an incremental re-scan adds Setups exactly when every Setup of the record is
\* consumed at that point of the run: it then adds the Setups the detector finds at the
\* bars dated after the watermark, and while a Setup is active it adds none
NewSetupsOnlyWhenAllConsumed ==
    [][(clock' = clock /\ lastPath' = "diff") =>
          /\ IsPrefix([k \in 1 .. Len(state.setups) |-> state.setups[k].id], [k \in 1 .. Len(state'.setups) |-> state'.setups[k].id])
          /\ \A k \in (Len(state.setups) + 1) .. Len(state'.setups) : state'.setups[k].date > state.last_updated
          /\ IF \A k \in 1 .. Len(state.setups) : state'.setups[k].status = "consumed"
             THEN {state'.setups[k].date : k \in (Len(state.setups) + 1) .. Len(state'.setups)}
                      = SetupDatesAfter(bars', weekly', state.last_updated)
             ELSE Len(state'.setups) = Len(state.setups)]_vars

\* an incremental re-scan consumed the last active Setup of the record and added a Setup
WitnessNewSetups ==
    /\ lastPath = "diff"
    /\ \E k \in 1 .. Len(before.setups) : before.setups[k].status = "active"
    /\ Len(state.setups) > Len(before.setups)

\* the lists of the record as the gap search, the breakout loop and the new-setup
\* search of an incremental re-scan of the frames leave them in memory
RescanLists(df_daily, df_weekly, st) ==
    DiffNewSetups(df_daily, df_weekly, st, st.last_updated, DiffBreakouts(df_daily, st, DiffGaps(df_daily, st)))

\* the re-scan found no new GapZone, no breakout, no violation and no new Setup
FindsNothing(df_daily, df_weekly, st) ==
    /\ RescanLists(df_daily, df_weekly, st).setups = st.setups
    /\ RescanLists(df_daily, df_weekly, st).fvgs = st.fvgs
    /\ RescanLists(df_daily, df_weekly, st).signals = st.signals

\* C35: an incremental re-scan that finds no new GapZone, no breakout, no violation and
\* no new Setup writes nothing: the stored record is exactly the one from before the run
PersistOnlyOnChange ==
    [][(clock' = clock /\ lastPath' = "diff" /\ FindsNothing(bars', weekly', state)) => state' = state]_vars

\* an incremental re-scan examined new bars and left the record as it was
WitnessPersistOnlyOnChange ==
    /\ lastPath = "diff"
    /\ fetched > 0
    /\ Len(before.fvgs) > 0
    /\ state = before

(***************************************************************************)
(* The stored series of one symbol, row by row, under syncs that follow one *)
(* another (HWBDataManager.get_stock_data_with_cache, one thread).          *)
(*   bars, weekly   the rows of daily_prices and weekly_prices, in table     *)
(*                  order; a row is [date, close]                           *)
(*   called         the frames the last fetch returned                      *)
(*   returned       the frames the last call returned                       *)
(***************************************************************************)
SeriesFirstDay == 5
SeriesLastDay == 10
\* the closes the provider may report for a date (it revises the rows of the running week)
Closes == {1, 2}

\* df[~df.index.duplicated(keep='first')]
RECURSIVE DropDuplicatedKeepFirst(_)
DropDuplicatedKeepFirst(q) ==
    IF Len(q) = 0 THEN <<>>
    ELSE LET front == DropDuplicatedKeepFirst(SubSeq(q, 1, Len(q) - 1))
         IN IF \E k \in 1 .. (Len(q) - 1) : q[k].date = q[Len(q)].date THEN front ELSE Append(front, q[Len(q)])

\* df[~df.index.duplicated(keep='last')]
RECURSIVE DropDuplicatedKeepLast(_)
DropDuplicatedKeepLast(q) ==
    IF Len(q) = 0 THEN <<>>
    ELSE IF \E k \in 2 .. Len(q) : q[k].date = q[1].date THEN DropDuplicatedKeepLast(Tail(q))
    ELSE <<q[1]>> \o DropDuplicatedKeepLast(Tail(q))

\* sort_index(): a stable sort by date
RECURSIVE InsertByDate(_, _)
InsertByDate(q, row) ==
    IF Len(q) = 0 THEN <<row>>
    ELSE IF q[Len(q)].date <= row.date THEN Append(q, row)
    ELSE Append(InsertByDate(SubSeq(q, 1, Len(q) - 1), row), q[Len(q)])

RECURSIVE SortIndex(_)
SortIndex(q) == IF Len(q) = 0 THEN <<>> ELSE InsertByDate(SortIndex(SubSeq(q, 1, Len(q) - 1)), q[Len(q)])

ConcatKeepFirst(df_old, df_new) == SortIndex(DropDuplicatedKeepFirst(df_old \o df_new))

\* pd.concat([df_old, df_new]), duplicated(keep='last'), sort_index()
ConcatKeepLast(df_old, df_new) == IF Len(df_new) = 0 THEN df_old ELSE SortIndex(DropDuplicatedKeepLast(df_old \o df_new))

\* SELECT ... ORDER BY date DESC LIMIT ?, then sort_index(); the limit is beyond the rows held here
load_from_db(rows) == SortIndex(rows)

\* the rows ticker.history returns for the dates, ascending, the last one possibly twice
RECURSIVE HistoryRows(_, _)
HistoryRows(dates, closes) ==
    IF dates = {} THEN <<>>
    ELSE Append(HistoryRows(dates \ {SetMax(dates)}, closes), [date |-> SetMax(dates), close |-> closes[SetMax(dates)]])

History(dates, closes, twice) ==
    IF twice /\ dates # {}
    THEN Append(HistoryRows(dates, closes), [date |-> SetMax(dates), close |-> 3 - closes[SetMax(dates)]])
    ELSE HistoryRows(dates, closes)

\* the metadata row _update_metadata computes from the stored rows
SeriesMetadata(daily_rows, weekly_rows) ==
    [exists |-> TRUE,
     first_date |-> IF Len(daily_rows) = 0 THEN 0 ELSE SetMin({daily_rows[k].date : k \in 1 .. Len(daily_rows)}),
     last_date |-> IF Len(daily_rows) = 0 THEN 0 ELSE SetMax({daily_rows[k].date : k \in 1 .. Len(daily_rows)}),
     daily_count |-> Len(daily_rows), weekly_count |-> Len(weekly_rows)]

SeriesInit ==
    /\ bars = <<>>
    /\ weekly = <<>>
    /\ clock = 1
    /\ state = NoState
    /\ summary = <<>>
    /\ before = NoState
    /\ lastPath = "init"
    /\ fetched = 0
    /\ fetch_failed = FALSE
    /\ today = SeriesFirstDay
    /\ instOf = [t \in Threads |-> 1]
    /\ db_lock = [inst \in Instances |-> 0]
    /\ daily_prices = [s \in Symbols |-> {}]
    /\ weekly_prices = [s \in Symbols |-> {}]
    /\ data_metadata = [s \in Symbols |-> NoMetadata]
    /\ writer = 0
    /\ th = [t \in Threads |-> IdleThread]
    /\ torn = [s \in Symbols |-> FALSE]
    /\ RunIdle
    /\ RulesIdle

\* a call that fetches: Steps 1 to 4 with the frames df_new_daily, df_new_weekly
SyncFetched(df_new_daily, df_new_weekly) ==
    /\ called' = [fn |-> "_fetch_from_yfinance", args |-> <<df_new_daily, df_new_weekly>>]
    /\ IF Len(df_new_daily) > 0 \/ Len(df_new_weekly) > 0
       THEN /\ bars' = ConcatKeepLast(load_from_db(bars), df_new_daily)
            /\ weekly' = ConcatKeepLast(load_from_db(weekly), df_new_weekly)
            /\ data_metadata' = [data_metadata EXCEPT !["A"] = SeriesMetadata(bars', weekly')]
       ELSE UNCHANGED <<bars, weekly, data_metadata>>
    /\ returned' = <<load_from_db(bars'), load_from_db(weekly')>>

\* get_stock_data_with_cache("A") from its entry to its return
Sync ==
    /\ IF SyncDecision(data_metadata["A"], today).needs_update
       THEN \E kind \in FetchKinds, e \in {today - 1, today}, twice \in BOOLEAN :
               \E dc \in [ProviderDaily(SyncDecision(data_metadata["A"], today).start_date, e) -> Closes],
                  wc \in [ProviderWeekly(SyncDecision(data_metadata["A"], today).start_date, e) -> Closes] :
                  IF kind = "rows"
                  THEN SyncFetched(DropDuplicatedKeepFirst(History(DOMAIN dc, dc, twice)), DropDuplicatedKeepFirst(History(DOMAIN wc, wc, twice)))
                  ELSE SyncFetched(<<>>, <<>>)
       ELSE /\ called' = NoCall
            /\ returned' = <<load_from_db(bars), load_from_db(weekly)>>
            /\ UNCHANGED <<bars, weekly, data_metadata>>
    /\ UNCHANGED <<clock, state, summary, before, lastPath, fetched, fetch_failed>>
    /\ UNCHANGED <<today, instOf, db_lock, daily_prices, weekly_prices, writer, th, torn>>
    /\ UNCHANGED runVars

\* midnight
SeriesTick ==
    /\ today < SeriesLastDay
    /\ today' = today + 1
    /\ UNCHANGED <<instOf, db_lock, daily_prices, weekly_prices, data_metadata, writer, th, torn>>
    /\ UNCHANGED <<vars, fetch_failed, runVars, ruleVars>>

SeriesNext == Sync \/ SeriesTick

SeriesSpec == SeriesInit /\ [][SeriesNext]_<<vars, cacheVars, ruleVars>>

\* no two rows of the series carry the same date
OneRowPerDate(q) == \A j \in 1 .. Len(q), k \in 1 .. Len(q) : j # k => q[j].date # q[k].date
\* the rows are in strictly increasing date order
StrictlyIncreasing(q) == \A k \in 1 .. (Len(q) - 1) : q[k].date < q[k + 1].date
\* every row of df_new whose date the series `old` held is a row of the series `new`
NewestKept(old, df_new, new) ==
    \A k \in 1 .. Len(df_new) :
        (\E j \in 1 .. Len(old) : old[j].date = df_new[k].date) => \E j \in 1 .. Len(new) : new[j] = df_new[k]

SetupIds(st) == {st.setups[k].id : k \in 1 .. Len(st.setups)}
GapIds(st) == {st.fvgs[k].id : k \in 1 .. Len(st.fvgs)}

\* every GapZone of the record refers to a Setup of the record
GapsReferToSetups == state.exists => \A k \in 1 .. Len(state.fvgs) : state.fvgs[k].setup_id \in SetupIds(state)

\* C38: after any run, every GapZone's setup_id is the id of a Setup in the persisted record's
\* setups list, and every Signal's id is the id of a GapZone in the record's gaps list.
ReferentialIntegrity ==
    state.exists =>
        /\ \A k \in 1 .. Len(state.fvgs) : state.fvgs[k].setup_id \in SetupIds(state)
        /\ \A k \in 1 .. Len(state.signals) : state.signals[k].id \in GapIds(state)


\* ---------------------------------------------------------------------------
\* The scheduler (cron_scheduler.py): main() reads the Tokyo time and decides
\* whether the fetch job runs.  clock is now_jst, called the call of main(),
\* returned the jobs main() started.

\* bound of the scheduler model: the year the clock is drawn from
SchedYear == 2025
\* the minutes the clock is drawn from
SchedMinutes == {0, 15, 59}

\* the proleptic Gregorian calendar of datetime
is_leap(year) == year % 4 = 0 /\ (year % 100 # 0 \/ year % 400 = 0)
days_in_month(year, month) ==
    IF month = 2 THEN (IF is_leap(year) THEN 29 ELSE 28)
    ELSE IF month \in {4, 6, 9, 11} THEN 30 ELSE 31
days_before_year(year) == (year - 1) * 365 + ((year - 1) \div 4) - ((year - 1) \div 100) + ((year - 1) \div 400)
RECURSIVE days_before_month(_, _)
days_before_month(year, month) ==
    IF month = 1 THEN 0 ELSE days_before_month(year, month - 1) + days_in_month(year, month - 1)
toordinal(year, month, day) == days_before_year(year) + days_before_month(year, month) + day

\* now_jst.weekday(): Mon = 0 ... Sun = 6
weekday(dt) == (toordinal(dt.year, dt.month, dt.day) + 6) % 7

\* the instant of a wall-clock time at a UTC offset of utcoffset hours, in minutes
Instant(dt, utcoffset) == ((toordinal(dt.year, dt.month, dt.day) * 24 + dt.hour - utcoffset) * 60) + dt.minute

\* the Tokyo times of the year
JstTimes ==
    {[year |-> SchedYear, month |-> m, day |-> d, hour |-> h, minute |-> mi] :
        m \in 1 .. 12, d \in 1 .. 31, h \in 0 .. 23, mi \in SchedMinutes}

\* US/Eastern daylight saving time: from 02:00 EST on the second Sunday of March
\* to 02:00 EDT on the first Sunday of November
SundayIn(year, month, days) == CHOOSE d \in days : (toordinal(year, month, d) + 6) % 7 = 6
DstStart(year) == Instant([year |-> year, month |-> 3, day |-> SundayIn(year, 3, 8 .. 14), hour |-> 2, minute |-> 0], -5)
DstEnd(year) == Instant([year |-> year, month |-> 11, day |-> SundayIn(year, 11, 1 .. 7), hour |-> 2, minute |-> 0], -4)

\* now_jst.astimezone(US/Eastern).dst().total_seconds() != 0
is_us_dst(now_jst) ==
    /\ DstStart(now_jst.year) <= Instant(now_jst, 9)
    /\ Instant(now_jst, 9) < DstEnd(now_jst.year)

should_run_at(now_jst) ==
    IF weekday(now_jst) \notin {1, 2, 3, 4, 5} THEN FALSE
    ELSE IF is_us_dst(now_jst) THEN now_jst.hour = 5
    ELSE now_jst.hour = 6

SchedInit ==
    /\ bars = <<>>
    /\ weekly = <<>>
    /\ clock \in {t \in JstTimes : t.day <= days_in_month(t.year, t.month)}
    /\ state = NoState
    /\ summary = <<>>
    /\ before = NoState
    /\ lastPath = "init"
    /\ fetched = 0
    /\ fetch_failed = FALSE
    /\ CacheIdle
    /\ RunIdle
    /\ RulesIdle

\* main(): run_fetch_job is called when should_run_at(now_jst)
main ==
    /\ called = NoCall
    /\ called' = [fn |-> "main", args |-> <<clock>>]
    /\ returned' = IF should_run_at(clock) THEN <<"run_fetch_job">> ELSE <<>>
    /\ UNCHANGED <<vars, fetch_failed, cacheVars, runVars>>

SchedNext == main

SchedSpec == SchedInit /\ [][SchedNext]_<<vars, ruleVars>>

\* main() ran at an hour-5 time in daylight saving time or an hour-6 time in standard time
InRunHour(t) == (t.hour = 5 /\ is_us_dst(t)) \/ (t.hour = 6 /\ ~is_us_dst(t))
\* main() ran at an hour-6 time in daylight saving time or an hour-5 time in standard time
InSkipHour(t) == (t.hour = 6 /\ is_us_dst(t)) \/ (t.hour = 5 /\ ~is_us_dst(t))

\* main() does not start the job at hour 6 in daylight saving time or at hour 5 in standard time
SchedulerSkips == (called.fn = "main" /\ InSkipHour(called.args[1])) => returned = <<>>

\* C37: main() starts run_fetch_job exactly once when the Tokyo hour is 5 and US Eastern
\* time is in daylight saving time, or the hour is 6 and US Eastern time is in standard
\* time; it does not start the job at hour 6 in daylight saving time or at hour 5 in
\* standard time.
SchedulerTrigger ==
    called.fn = "main" =>
        /\ InRunHour(called.args[1]) => returned = <<"run_fetch_job">>
        /\ InSkipHour(called.args[1]) => returned = <<>>

\* the four times of test_cron_scheduler.py
TestTime(month, day, hour) == [year |-> 2025, month |-> month, day |-> day, hour |-> hour, minute |-> 15]
SummerRunSkipped == called.fn = "main" /\ called.args[1] = TestTime(6, 15, 5) /\ returned = <<>>


\* ---------------------------------------------------------------------------
\* Two threads sync one symbol at the same time: both have read the metadata
\* row in Step 1 before either writes.  called records the call and what the
\* two Step 1s found: the symbol, the metadata row, the stored rows.

RaceSymbol == "A"

\* the stores a symbol can have before the two calls: nothing, or the rows of an earlier sync
PriorStores ==
    {NoRows} \cup
    {[daily |-> calculate_full_daily_ma({}, ProviderDaily(FirstDay - LOOKBACK_DAYS, e)),
      weekly |-> calculate_full_weekly_ma({}, ProviderWeekly(FirstDay - LOOKBACK_DAYS, e))] : e \in {FirstDay - 1, FirstDay}}

\* the metadata row that belongs to a store
PriorMetadata(rows) == IF rows = NoRows THEN NoMetadata ELSE metadata_values(rows.daily, rows.weekly)

\* a thread that has left Step 1 with needs_update
AfterStep1(metadata, today_) ==
    [IdleThread EXCEPT !.pc = "fetch", !.symbol = RaceSymbol, !.metadata = metadata, !.today = today_,
                       !.needs_update = TRUE, !.start_date = SyncDecision(metadata, today_).start_date]

RaceInit ==
    /\ bars = <<>>
    /\ weekly = <<>>
    /\ clock = 1
    /\ state = NoState
    /\ summary = <<>>
    /\ before = NoState
    /\ lastPath = "init"
    /\ fetched = 0
    /\ fetch_failed = FALSE
    /\ instOf \in {[t \in Threads |-> 1], [t \in Threads |-> t]}
    /\ db_lock = [inst \in Instances |-> 0]
    /\ writer = 0
    /\ torn = [s \in Symbols |-> FALSE]
    /\ \E rows \in PriorStores, day \in FirstDay .. MaxToday :
          /\ SyncDecision(PriorMetadata(rows), day).needs_update
          /\ today = day
          /\ daily_prices = [s \in Symbols |-> rows.daily]
          /\ weekly_prices = [s \in Symbols |-> rows.weekly]
          /\ data_metadata = [s \in Symbols |-> PriorMetadata(rows)]
          /\ th = [t \in Threads |-> AfterStep1(PriorMetadata(rows), day)]
          /\ called = [fn |-> "get_stock_data_with_cache", args |-> <<RaceSymbol, PriorMetadata(rows), rows>>]
    /\ returned = <<>>
    /\ RunIdle

\* the two calls run on from Step 2 to their return statement
RaceNext ==
    \/ \E t \in Threads : Fetch(t)
    \/ \E t \in Threads : Step3Load(t)
    \/ \E t \in Threads : BeginDelete(t)
    \/ \E t \in Threads : InsertDaily(t)
    \/ \E t \in Threads : InsertWeekly(t)
    \/ \E t \in Threads : Commit(t)
    \/ \E t \in Threads : SaveFails(t)
    \/ \E t \in Threads : UpdateMetadata(t)
    \/ \E t \in Threads : Step4Load(t)
    \/ \E t \in Threads : Step4Exit(t)

RaceSpec == RaceInit /\ [][RaceNext]_<<vars, fetch_failed, cacheVars, runVars>>

\* the rows one sync leaves that starts from the store `rows` with the metadata row
\* `metadata`: those it found (no rows fetched), or those merged with one fetch
SingleSyncRows(metadata, rows, today_) ==
    {rows} \cup
    {[daily |-> calculate_full_daily_ma(rows.daily, ProviderDaily(SyncDecision(metadata, today_).start_date, e)),
      weekly |-> calculate_full_weekly_ma(rows.weekly, ProviderWeekly(SyncDecision(metadata, today_).start_date, e))] :
        e \in {today_ - 1, today_}}

\* the metadata row of the symbol agrees with its stored rows
MetadataMatchesRows(s) ==
    IF data_metadata[s].exists
    THEN /\ data_metadata[s].last_date = (IF daily_prices[s] = {} THEN 0 ELSE SetMax(daily_prices[s]))
         /\ data_metadata[s].daily_count = Cardinality(daily_prices[s])
         /\ data_metadata[s].weekly_count = Cardinality(weekly_prices[s])
    ELSE Rows(s) = NoRows

\* both calls have returned
BothFinished == \A t \in Threads : th[t].pc = "done"

\* C39: when two threads sync the same symbol and both read the metadata before either
\* writes, then after both have finished the stored rows are those of a single sync
\* (one row per date) and the metadata row's last_date and counts match the stored rows.
ConcurrentSync ==
    BothFinished =>
        /\ Rows(RaceSymbol) \in SingleSyncRows(called.args[2], called.args[3], today)
        /\ MetadataMatchesRows(RaceSymbol)

\* the same, for the runs in which no write raised
ConcurrentSyncNoFailure ==
    (BothFinished /\ \A t \in Threads : ~th[t].write_failed) => ConcurrentSync

\* the same, for the threads of one instance
ConcurrentSyncOneInstance ==
    (\A t \in Threads : instOf[t] = 1) => ConcurrentSyncNoFailure

=============================================================================
